---------------------------- MODULE Spec2Model ----------------------------
(***************************************************************************)
(* A model of the configuration core of ds-decomp: the relocation table,   *)
(* the section model and the symbol map, with their line-oriented text     *)
(* formats.                                                                *)
(*                                                                         *)
(* Representation.  TLC's integers are 32-bit signed, so a u32 is kept as  *)
(* a pair <<hi, lo>> of 16-bit limbs (value hi * 2^16 + lo), an i32 as a   *)
(* plain integer, and an i64 as a pair <<hi, lo>> with a signed hi limb.   *)
(* Text is a sequence of one-character strings, so that the parsers and    *)
(* the Display implementations are computed character by character.        *)
(***************************************************************************)
EXTENDS Integers, Sequences, FiniteSets, TLC

(***************************************************************************)
(* Fixed-width integers.                                                   *)
(***************************************************************************)
B16 == 2^16

U32(hi, lo) == <<hi, lo>>

U32Lt(a, b) == a[1] < b[1] \/ (a[1] = b[1] /\ a[2] < b[2])

U32Le(a, b) == a = b \/ U32Lt(a, b)

I32Min == -2147483647 - 1

\* `x as i64` for an i32 x: sign extension keeps the value.
I64OfI32(x) == <<x \div B16, x % B16>>

\* i64 + i64.  The operands of this model are an i32 and a bias in -8..0, so
\* the sum stays far inside the i64 range and no wrap can take place.
I64Add(a, b) ==
    LET lo == a[2] + b[2]
    IN  <<a[1] + b[1] + (lo \div B16), lo % B16>>

I64Sub(a, b) ==
    LET lo == a[2] - b[2]
    IN  <<a[1] - b[1] + (lo \div B16), lo % B16>>

\* i32 + i32 with two's-complement wrap-around, as a release build computes it.
I32WrappingAdd(x, y) ==
    LET s  == I64Add(I64OfI32(x), I64OfI32(y))
        hi == ((s[1] + 2^15) % B16) - 2^15
    IN  IF hi = -(2^15) /\ s[2] = 0 THEN I32Min ELSE hi * B16 + s[2]

\* Bitwise and of two 16-bit limbs.
RECURSIVE BitAnd16(_, _)
BitAnd16(x, y) ==
    IF x = 0 \/ y = 0 THEN 0
    ELSE 2 * BitAnd16(x \div 2, y \div 2) + (IF x % 2 = 1 /\ y % 2 = 1 THEN 1 ELSE 0)

U32And(a, b) == <<BitAnd16(a[1], b[1]), BitAnd16(a[2], b[2])>>

\* u32 - u32 for a >= b.
U32Sub(a, b) ==
    IF a[2] >= b[2] THEN <<a[1] - b[1], a[2] - b[2]>>
    ELSE <<a[1] - b[1] - 1, a[2] + B16 - b[2]>>

\* u32 + u32 leaves the u32 range.
U32AddOverflows(a, b) == a[1] + b[1] + ((a[2] + b[2]) \div B16) >= B16

\* u32 + u32 and u32 - u32 with wrap-around, as a build without overflow
\* checks computes them.
U32WrappingAdd(a, b) ==
    <<(a[1] + b[1] + ((a[2] + b[2]) \div B16)) % B16, (a[2] + b[2]) % B16>>

U32WrappingSub(a, b) ==
    IF a[2] >= b[2] THEN <<(a[1] - b[1]) % B16, a[2] - b[2]>>
    ELSE <<(a[1] - b[1] - 1) % B16, a[2] + B16 - b[2]>>

\* `n as u32` for a length n, and `x as usize` for a u32 x.
U32OfLen(n) == <<(n \div B16) % B16, n % B16>>

AsUsize(x) == x[1] * B16 + x[2]

\* The u32 whose bytes, least significant first, are the first four of bytes.
Word32(bytes) == <<bytes[3] + 256 * bytes[4], bytes[1] + 256 * bytes[2]>>

\* u32::is_power_of_two: exactly one bit set.
U32IsPowerOfTwo(a) ==
    \/ a[1] = 0 /\ \E k \in 0..15 : a[2] = 2^k
    \/ a[2] = 0 /\ \E k \in 0..15 : a[1] = 2^k

(***************************************************************************)
(* Text: sequences of one-character strings.                               *)
(***************************************************************************)
HexChars == <<"0","1","2","3","4","5","6","7","8","9","a","b","c","d","e","f">>

IsPrefix(p, s) == Len(p) <= Len(s) /\ SubSeq(s, 1, Len(p)) = p

IsSuffix(p, s) == Len(p) <= Len(s) /\ SubSeq(s, Len(s) - Len(p) + 1, Len(s)) = p

Drop(s, n) == SubSeq(s, n + 1, Len(s))

\* str::find: the 1-based position of the first occurrence of p in s, 0 if none.
Find(s, p) ==
    LET hits == {i \in 1..(Len(s) - Len(p) + 1) : SubSeq(s, i, i + Len(p) - 1) = p}
    IN  IF hits = {} THEN 0 ELSE CHOOSE i \in hits : \A j \in hits : i <= j

\* str::split_once(c): [found, left, right].
SplitOnce(s, c) ==
    LET i == Find(s, <<c>>)
    IN  IF i = 0 THEN [found |-> FALSE, left |-> s, right |-> <<>>]
        ELSE [found |-> TRUE, left |-> SubSeq(s, 1, i - 1), right |-> Drop(s, i)]

\* str::strip_suffix(c).unwrap_or(s)
StripSuffixOr(s, c) == IF IsSuffix(<<c>>, s) THEN SubSeq(s, 1, Len(s) - 1) ELSE s

\* str::split(c): the pieces between occurrences of c (one piece, possibly
\* empty, when c does not occur).
RECURSIVE Split(_, _)
Split(s, c) ==
    LET i == Find(s, <<c>>)
    IN  IF i = 0 THEN <<s>> ELSE <<SubSeq(s, 1, i - 1)>> \o Split(Drop(s, i), c)

IsSpace(c) == c \in {" ", "\t"}

\* str::split_whitespace: the maximal runs of non-whitespace characters.
RECURSIVE SplitWhitespace(_)
SplitWhitespace(s) ==
    IF s = <<>> THEN <<>>
    ELSE IF IsSpace(Head(s)) THEN SplitWhitespace(Tail(s))
    ELSE LET ends == {i \in 1..Len(s) : IsSpace(s[i])}
             e    == IF ends = {} THEN Len(s) + 1
                     ELSE CHOOSE i \in ends : \A j \in ends : i <= j
         IN  <<SubSeq(s, 1, e - 1)>> \o SplitWhitespace(Drop(s, e - 1))

RECURSIVE Join(_, _)
Join(words, sep) ==
    IF words = <<>> THEN <<>>
    ELSE IF Len(words) = 1 THEN words[1]
    ELSE words[1] \o sep \o Join(Tail(words), sep)

(***************************************************************************)
(* Integer formatting (core::fmt) and parsing (crate::util::parse).        *)
(***************************************************************************)
DigitValue(c) == (CHOOSE i \in 1..16 : HexChars[i] = c) - 1

IsDigit(c, radix) == \E i \in 1..radix : HexChars[i] = c

\* The four hexadecimal digits of one 16-bit limb.
Hex4(n) ==
    <<HexChars[(n \div 4096) + 1], HexChars[((n \div 256) % 16) + 1],
      HexChars[((n \div 16) % 16) + 1], HexChars[(n % 16) + 1]>>

RECURSIVE StripZeros(_)
StripZeros(s) == IF Len(s) > 1 /\ Head(s) = "0" THEN StripZeros(Tail(s)) ELSE s

\* {:08x}
FmtHex08(a) == Hex4(a[1]) \o Hex4(a[2])

\* {:#010x}
FmtHex010(a) == <<"0", "x">> \o FmtHex08(a)

\* {:#x}
FmtHex(a) == <<"0", "x">> \o StripZeros(FmtHex08(a))

\* {} of a u32: decimal, by long division of the limbs by ten.
RECURSIVE FmtDec(_)
FmtDec(a) ==
    LET qhi  == a[1] \div 10
        rest == (a[1] % 10) * B16 + a[2]
        q    == U32(qhi, rest \div 10)
        d    == <<HexChars[(rest % 10) + 1]>>
    IN  IF a[1] = 0 /\ a[2] < 10 THEN d
        ELSE FmtDec(<<q[1] + (q[2] \div B16), q[2] % B16>>) \o d

\* from_str_radix on an unsigned 32-bit accumulator: an error on the empty
\* string, on a character that is no digit of the radix, and on overflow.
RECURSIVE ParseAcc(_, _, _)
ParseAcc(s, radix, acc) ==
    IF s = <<>> THEN [ok |-> TRUE, v |-> acc]
    ELSE IF ~IsDigit(Head(s), radix) THEN [ok |-> FALSE, v |-> acc]
    ELSE LET lo == acc[2] * radix + DigitValue(Head(s))
             hi == acc[1] * radix + (lo \div B16)
         IN  IF hi >= B16 THEN [ok |-> FALSE, v |-> acc]
             ELSE ParseAcc(Tail(s), radix, <<hi, lo % B16>>)

ParseRadix(s, radix) ==
    IF s = <<>> THEN [ok |-> FALSE, v |-> <<0, 0>>] ELSE ParseAcc(s, radix, <<0, 0>>)

\* parse_u32: hexadecimal after a 0x prefix, decimal otherwise.
parse_u32(s) ==
    IF IsPrefix(<<"0", "x">>, s) THEN ParseRadix(Drop(s, 2), 16) ELSE ParseRadix(s, 10)

\* parse_u16: as parse_u32, within 16 bits; the value is a plain integer.
parse_u16(s) ==
    LET r == parse_u32(s)
    IN  IF r.ok /\ r.v[1] = 0 THEN [ok |-> TRUE, v |-> r.v[2]] ELSE [ok |-> FALSE, v |-> 0]

\* parse_i32: an optional minus sign before the magnitude.
parse_i32(s) ==
    LET neg == IsPrefix(<<"-">>, s)
        r   == parse_u32(IF neg THEN Tail(s) ELSE s)
    IN  IF ~r.ok THEN [ok |-> FALSE, v |-> 0]
        ELSE IF r.v[1] < 2^15
             THEN [ok |-> TRUE, v |-> IF neg THEN -(r.v[1] * B16 + r.v[2])
                                              ELSE r.v[1] * B16 + r.v[2]]
        ELSE IF neg /\ r.v = <<2^15, 0>> THEN [ok |-> TRUE, v |-> I32Min]
        ELSE [ok |-> FALSE, v |-> 0]

(***************************************************************************)
(* Results.  Ok(v) and Err are records told apart by ok; an error keeps    *)
(* its variant name, the offending text, and the ParseContext it was built *)
(* with: ctx is <<row>>, or <<>> for an error that carries no context.     *)
(***************************************************************************)
Ok(v) == [ok |-> TRUE, v |-> v]

Err(kind, detail, ctx) == [ok |-> FALSE, err |-> kind, detail |-> detail, ctx |-> ctx]

\* A panic: the call does not return.
Panic(message) == [ok |-> FALSE, err |-> "Panic", detail |-> message, ctx |-> <<>>]

\* Option<T>: <<>> is None, <<x>> is Some(x).
None == <<>>

Some(x) == <<x>>

(***************************************************************************)
(* Keywords of the text formats.                                           *)
(***************************************************************************)
K_from == <<"f","r","o","m">>

K_to == <<"t","o">>

K_add == <<"a","d","d">>

K_kind == <<"k","i","n","d">>

K_module == <<"m","o","d","u","l","e">>

K_addr == <<"a","d","d","r">>

K_none == <<"n","o","n","e">>

K_main == <<"m","a","i","n">>

K_itcm == <<"i","t","c","m">>

K_dtcm == <<"d","t","c","m">>

K_overlay == <<"o","v","e","r","l","a","y">>

K_overlays == <<"o","v","e","r","l","a","y","s">>

K_arm_call == <<"a","r","m","_","c","a","l","l">>

K_thumb_call == <<"t","h","u","m","b","_","c","a","l","l">>

K_arm_call_thumb == <<"a","r","m","_","c","a","l","l","_","t","h","u","m","b">>

K_thumb_call_arm == <<"t","h","u","m","b","_","c","a","l","l","_","a","r","m">>

K_arm_branch == <<"a","r","m","_","b","r","a","n","c","h">>

K_load == <<"l","o","a","d">>

K_function == <<"f","u","n","c","t","i","o","n">>

K_data == <<"d","a","t","a">>

K_bss == <<"b","s","s">>

K_auto == <<"a","u","t","o">>

K_arm == <<"a","r","m">>

K_thumb == <<"t","h","u","m","b">>

K_byte == <<"b","y","t","e">>

K_word == <<"w","o","r","d">>

K_count == <<"c","o","u","n","t">>

(***************************************************************************)
(* The attribute-line grammar: each word after split_whitespace is         *)
(* key:value.                                                              *)
(***************************************************************************)
\* iter_attributes(words) of the library: the pairs (key, value) of the words;
\* a word without a colon is a key with an empty value.
iter_attributes(words) ==
    [i \in 1..Len(words) |->
        LET p == SplitOnce(words[i], ":") IN <<p.left, p.right>>]

(***************************************************************************)
(* RelocationKind                                                          *)
(***************************************************************************)
RelocationKinds ==
    {"ArmCall", "ThumbCall", "ArmCallThumb", "ThumbCallArm", "ArmBranch", "Load"}

RelocationKind_parse(value, ctx) ==
    CASE value = K_arm_call       -> Ok("ArmCall")
      [] value = K_thumb_call     -> Ok("ThumbCall")
      [] value = K_arm_call_thumb -> Ok("ArmCallThumb")
      [] value = K_thumb_call_arm -> Ok("ThumbCallArm")
      [] value = K_arm_branch     -> Ok("ArmBranch")
      [] value = K_load           -> Ok("Load")
      [] OTHER                    -> Err("UnknownKind", value, ctx)

\* The kind's intrinsic pc-relative bias, an i64.
RelocationKind_addend(kind) ==
    CASE kind = "ArmCall"      -> I64OfI32(-8)
      [] kind = "ThumbCall"    -> I64OfI32(-4)
      [] kind = "ArmCallThumb" -> I64OfI32(-8)
      [] kind = "ThumbCallArm" -> I64OfI32(-4)
      [] kind = "ArmBranch"    -> I64OfI32(-8)
      [] kind = "Load"         -> I64OfI32(0)

RelocationKind_fmt(kind) ==
    CASE kind = "ArmCall"      -> K_arm_call
      [] kind = "ThumbCall"    -> K_thumb_call
      [] kind = "ArmCallThumb" -> K_arm_call_thumb
      [] kind = "ThumbCallArm" -> K_thumb_call_arm
      [] kind = "ArmBranch"    -> K_arm_branch
      [] kind = "Load"         -> K_load

(***************************************************************************)
(* RelocationModule: [tag, ids]; ids is <<id>> for Overlay, the id list    *)
(* for Overlays and empty for the other variants.                          *)
(***************************************************************************)
Module(tag, ids) == [tag |-> tag, ids |-> ids]

\* The arm shared by none, main, itcm and dtcm.
NoOptionModule(tag, name, options, ctx) ==
    IF options = <<>> THEN Ok(Module(tag, <<>>))
    ELSE Err("UnexpectedOptions", <<name, options>>, ctx)

\* parse_u16 mapped over the pieces, collected into a Result: the first
\* failing piece ends the collection.
RECURSIVE CollectOverlayIds(_, _, _)
CollectOverlayIds(pieces, ids, ctx) ==
    IF pieces = <<>> THEN Ok(ids)
    ELSE LET r == parse_u16(Head(pieces))
         IN  IF r.ok THEN CollectOverlayIds(Tail(pieces), Append(ids, r.v), ctx)
             ELSE Err("ParseOverlayId", Head(pieces), ctx)

RelocationModule_parse_any_count(text, ctx) ==
    LET sp      == SplitOnce(text, "(")
        value   == sp.left
        options == StripSuffixOr(sp.right, ")")
    IN  CASE value = K_none -> NoOptionModule("None", K_none, options, ctx)
          [] value = K_overlay ->
                LET r == parse_u16(options)
                IN  IF r.ok THEN Ok(Module("Overlay", <<r.v>>))
                    ELSE Err("ParseOverlayId", options, ctx)
          [] value = K_overlays -> 
                LET r == CollectOverlayIds(Split(options, ","), <<>>, ctx)
                IN  IF ~r.ok THEN r ELSE Ok(Module("Overlays", r.v))
          [] value = K_main -> NoOptionModule("Main", K_main, options, ctx)
          [] value = K_itcm -> NoOptionModule("Itcm", K_itcm, options, ctx)
          [] value = K_dtcm -> NoOptionModule("Dtcm", K_dtcm, options, ctx)
          [] OTHER -> Err("UnknownModule", value, ctx)

RelocationModule_parse(text, ctx) ==
    LET sp      == SplitOnce(text, "(")
        value   == sp.left
        options == StripSuffixOr(sp.right, ")")
    IN  CASE value = K_none -> NoOptionModule("None", K_none, options, ctx)
          [] value = K_overlay ->
                LET r == parse_u16(options)
                IN  IF r.ok THEN Ok(Module("Overlay", <<r.v>>))
                    ELSE Err("ParseOverlayId", options, ctx)
          [] value = K_overlays ->
                LET r == CollectOverlayIds(Split(options, ","), <<>>, ctx)
                IN  IF ~r.ok THEN r
                    ELSE IF Len(r.v) < 2 THEN Err("ExpectedMultipleOverlays", r.v, ctx)
                    ELSE Ok(Module("Overlays", r.v))
          [] value = K_main -> NoOptionModule("Main", K_main, options, ctx)
          [] value = K_itcm -> NoOptionModule("Itcm", K_itcm, options, ctx)
          [] value = K_dtcm -> NoOptionModule("Dtcm", K_dtcm, options, ctx)
          [] OTHER -> Err("UnknownModule", value, ctx)

RECURSIVE FmtIdsTail(_)
FmtIdsTail(ids) ==
    IF ids = <<>> THEN <<>>
    ELSE <<",">> \o FmtDec(U32(0, Head(ids))) \o FmtIdsTail(Tail(ids))

RelocationModule_fmt(m) ==
    CASE m.tag = "None"     -> K_none
      [] m.tag = "Overlay"  -> K_overlay \o <<"(">> \o FmtDec(U32(0, m.ids[1])) \o <<")">>
      [] m.tag = "Overlays" ->
            K_overlays \o <<"(">> \o FmtDec(U32(0, m.ids[1])) \o FmtIdsTail(Tail(m.ids))
                \o <<")">>
      [] m.tag = "Main"     -> K_main
      [] m.tag = "Itcm"     -> K_itcm
      [] m.tag = "Dtcm"     -> K_dtcm

(***************************************************************************)
(* Relocation: [from, to, addend, kind, module, source].                   *)
(***************************************************************************)
Relocation(from, to, addend, kind, module, source) ==
    [from |-> from, to |-> to, addend |-> addend, kind |-> kind, module |-> module,
     source |-> source]

\* #[derive(PartialEq, Eq)]: every field takes part, source included.
Relocation_eq(a, b) ==
    /\ a.from = b.from
    /\ a.to = b.to
    /\ a.addend = b.addend
    /\ a.kind = b.kind
    /\ a.module = b.module
    /\ a.source = b.source

\* The attribute loop of Relocation::parse: acc holds from, to, kind and
\* module as Options and the addend, which starts at 0.
RECURSIVE Relocation_parse_attrs(_, _, _)
Relocation_parse_attrs(attrs, acc, ctx) ==
    IF attrs = <<>> THEN Ok(acc)
    ELSE
      LET key   == attrs[1][1]
          value == attrs[1][2]
          rest  == Tail(attrs)
      IN  CASE key = K_from ->
                 LET r == parse_u32(value)
                 IN  IF r.ok
                     THEN Relocation_parse_attrs(rest, [acc EXCEPT !.from = Some(r.v)], ctx)
                     ELSE Err("ParseFrom", value, ctx)
            [] key = K_to ->
                 LET r == parse_u32(value)
                 IN  IF r.ok
                     THEN Relocation_parse_attrs(rest, [acc EXCEPT !.to = Some(r.v)], ctx)
                     ELSE Err("ParseTo", value, ctx)
            [] key = K_add ->
                 LET r == parse_i32(value)
                 IN  IF r.ok
                     THEN Relocation_parse_attrs(rest, [acc EXCEPT !.addend = r.v], ctx)
                     ELSE Err("ParseAdd", value, ctx)
            [] key = K_kind ->
                 LET r == RelocationKind_parse(value, ctx)
                 IN  IF r.ok
                     THEN Relocation_parse_attrs(rest, [acc EXCEPT !.kind = Some(r.v)], ctx)
                     ELSE r
            [] key = K_module ->
                 LET r == RelocationModule_parse(value, ctx)
                 IN  IF r.ok
                     THEN Relocation_parse_attrs(rest, [acc EXCEPT !.module = Some(r.v)], ctx)
                     ELSE r
            [] OTHER -> Err("UnknownAttribute", key, ctx)

\* Relocation::parse: Result<Option<Relocation>>; the value of an Ok is the
\* Option.  No path of the function returns Ok(None).
Relocation_parse(line, ctx) ==
    LET Finish(r) ==
            IF ~r.ok THEN r
            ELSE IF r.v.from = None THEN Err("MissingAttribute", K_from, ctx)
            ELSE IF r.v.to = None THEN Err("MissingAttribute", K_to, ctx)
            ELSE IF r.v.kind = None THEN Err("MissingAttribute", K_kind, ctx)
            ELSE IF r.v.module = None THEN Err("MissingAttribute", K_module, ctx)
            ELSE Ok(Some(Relocation(r.v.from[1], r.v.to[1], r.v.addend, r.v.kind[1],
                                    r.v.module[1], None)))
    IN  Finish(Relocation_parse_attrs(iter_attributes(SplitWhitespace(line)),
                   [from |-> None, to |-> None, addend |-> 0, kind |-> None,
                    module |-> None], ctx))

Relocation_new_call_by_destination(from, to, module, from_thumb, to_thumb) ==
    Relocation(from, to, 0,
        CASE from_thumb /\ to_thumb   -> "ThumbCall"
          [] from_thumb /\ ~to_thumb  -> "ArmCallThumb"
          [] ~from_thumb /\ to_thumb  -> "ThumbCallArm"
          [] ~from_thumb /\ ~to_thumb -> "ArmCall",
        module, None)

Relocation_new_call(from, to, module, from_thumb, to_thumb) ==
    Relocation(from, to, 0,
        CASE from_thumb /\ to_thumb   -> "ThumbCall"
          [] from_thumb /\ ~to_thumb  -> "ThumbCallArm"
          [] ~from_thumb /\ to_thumb  -> "ArmCallThumb"
          [] ~from_thumb /\ ~to_thumb -> "ArmCall",
        module, None)

Relocation_new_branch(from, to, module) ==
    Relocation(from, to, 0, "ArmBranch", module, None)

Relocation_new_load(from, to, addend, module) ==
    Relocation(from, to, addend, "Load", module, None)

\* The sum taken in i32 before the widening.
Relocation_addend_in_i32(r) ==
    I64OfI32(I32WrappingAdd(r.addend,
        LET b == RelocationKind_addend(r.kind) IN b[1] * B16 + b[2]))

\* Relocation::addend: self.addend as i64 + self.kind.addend()
Relocation_addend(r) == I64Add(I64OfI32(r.addend), RelocationKind_addend(r.kind))

Relocation_addend_value(r) == r.addend

\* impl Display for Relocation
Relocation_fmt(r) ==
    K_from \o <<":">> \o FmtHex010(r.from) \o <<" ">> \o K_kind \o <<":">>
        \o RelocationKind_fmt(r.kind) \o <<" ">> \o K_to \o <<":">> \o FmtHex010(r.to)
        \o <<" ">> \o K_module \o <<":">> \o RelocationModule_fmt(r.module)
        \o (IF r.source = None THEN <<>> ELSE <<" ", "/", "/", " ">> \o r.source[1])

(***************************************************************************)
(* Relocations: the table, a function from the occupied `from` addresses   *)
(* to their relocations (BTreeMap<u32, Relocation>).                       *)
(***************************************************************************)
Relocations_new == <<>>

Insert(map, key, value) ==
    [k \in (DOMAIN map) \cup {key} |-> IF k = key THEN value ELSE map[k]]

\* The entry arm for an occupied address that stores the new relocation.
Relocations_add_overwriting(table, relocation) ==
    [table |-> Insert(table, relocation.from, relocation), result |-> Ok(relocation)]

\* Relocations::add: the table afterwards and the returned Result.
Relocations_add(table, relocation) ==
    IF relocation.from \notin DOMAIN table
    THEN [table |-> Insert(table, relocation.from, relocation), result |-> Ok(relocation)]
    ELSE IF Relocation_eq(table[relocation.from], relocation)
         THEN [table |-> table, result |-> Ok(table[relocation.from])]
         ELSE LET other == table[relocation.from]
              IN  [table  |-> table,
                   result |-> [ok |-> FALSE, err |-> "RelocationCollision",
                               from |-> relocation.from,
                               curr_to |-> relocation.to,
                               curr_module |-> relocation.module,
                               prev_to |-> other.to,
                               prev_module |-> other.module]]

Relocations_add_call(table, from, to, module, from_thumb, to_thumb) ==
    Relocations_add(table, Relocation_new_call(from, to, module, from_thumb, to_thumb))

Relocations_add_load(table, from, to, addend, module) ==
    Relocations_add(table, Relocation_new_load(from, to, addend, module))

Relocations_get(table, from) == IF from \in DOMAIN table THEN Some(table[from]) ELSE None

\* The comment strip of from_file: the line up to the first "//".
StripComment(line) ==
    LET i == Find(line, <<"/", "/">>)
    IN  IF i = 0 THEN line ELSE SubSeq(line, 1, i - 1)

\* The line loop of Relocations::from_file; row is the context's row before
\* the line is read.
RECURSIVE Relocations_from_file_loop(_, _, _)
Relocations_from_file_loop(lines, row, relocations) ==
    IF lines = <<>> THEN Ok(relocations)
    ELSE LET Step(r) ==
                 IF ~r.ok THEN r
                 ELSE Relocations_from_file_loop(Tail(lines), row + 1,
                          IF r.v = None THEN relocations
                          ELSE Insert(relocations, r.v[1].from, r.v[1]))
         IN  Step(Relocation_parse(StripComment(Head(lines)), <<row + 1>>))

\* Relocations::from_file on the lines of the file.
Relocations_from_file(lines) == Relocations_from_file_loop(lines, 0, <<>>)

(***************************************************************************)
(* Symbol: [name, kind, addr]; a SymbolKind is [tag, arg] with arg the     *)
(* instruction mode of a Function, the SymData [kind, count] of a Data,    *)
(* the SymJumpTable [size, code] of a JumpTable and <<>> otherwise.        *)
(***************************************************************************)
Symbol(name, kind, addr) == [name |-> name, kind |-> kind, addr |-> addr]

SymbolKind(tag, arg) == [tag |-> tag, arg |-> arg]

SymData(kind, count) == [kind |-> kind, count |-> count]

\* iter_attributes(words, context) of the application crate: each word must
\* be key:value; the item of a word without a colon is an error.
iter_attributes_ctx(words, ctx) ==
    [i \in 1..Len(words) |->
        LET p == SplitOnce(words[i], ":")
        IN  IF p.found THEN Ok(<<p.left, p.right>>)
            ELSE Err("ExpectedKeyValue", words[i], ctx)]

InstructionMode_parse(text, ctx) ==
    CASE text = <<>> \/ text = K_auto -> Ok("Auto")
      [] text = K_arm                 -> Ok("Arm")
      [] text = K_thumb               -> Ok("Thumb")
      [] OTHER                        -> Err("ExpectedInstructionMode", text, ctx)

InstructionMode_fmt(mode) ==
    CASE mode = "Auto"  -> K_auto
      [] mode = "Arm"   -> K_arm
      [] mode = "Thumb" -> K_thumb

SymFunction_parse(options, ctx) ==
    LET r == InstructionMode_parse(options, ctx) IN IF r.ok THEN Ok(r.v) ELSE r

DataKind_parse(text, ctx) ==
    CASE text = K_byte -> Ok("Byte")
      [] text = K_word -> Ok("Word")
      [] OTHER         -> Err("ExpectedDataKind", text, ctx)

DataKind_fmt(kind) == IF kind = "Byte" THEN K_byte ELSE K_word

\* The option loop of SymData::parse.  A count that does not parse is
\* returned as the bare ParseIntError (`parse_u32(value)?`): no context.
RECURSIVE SymData_parse_options(_, _, _)
SymData_parse_options(options, acc, ctx) ==
    IF options = <<>> THEN Ok(acc)
    ELSE LET option == Head(options)
             kv     == SplitOnce(option, "=")
         IN  IF kv.found
             THEN IF kv.left = K_count
                  THEN LET r == parse_u32(kv.right)
                       IN  IF r.ok
                           THEN SymData_parse_options(Tail(options),
                                    [acc EXCEPT !.count = r.v], ctx)
                           ELSE Err("ParseIntError", kv.right, <<>>)
                  ELSE Err("ExpectedDataOption", option, ctx)
             ELSE LET r == DataKind_parse(option, ctx)
                  IN  IF r.ok
                      THEN SymData_parse_options(Tail(options),
                               [acc EXCEPT !.kind = r.v], ctx)
                      ELSE r

SymData_parse(options, ctx) ==
    SymData_parse_options(Split(options, ","), SymData("Word", U32(0, 1)), ctx)

\* Display with the count always left out.
SymData_fmt_no_count(data) == DataKind_fmt(data.kind)

SymData_fmt(data) ==
    DataKind_fmt(data.kind)
        \o (IF data.count # U32(0, 1) THEN <<",">> \o K_count \o <<"=">> \o FmtDec(data.count)
            ELSE <<>>)

SymbolKind_parse(text, ctx) ==
    LET sp      == SplitOnce(text, "(")
        kind    == sp.left
        options == StripSuffixOr(sp.right, ")")
    IN  CASE kind = K_function ->
                LET r == SymFunction_parse(options, ctx)
                IN  IF r.ok THEN Ok(SymbolKind("Function", r.v)) ELSE r
          [] kind = K_data ->
                LET r == SymData_parse(options, ctx)
                IN  IF r.ok THEN Ok(SymbolKind("Data", r.v)) ELSE r
          [] kind = K_bss -> Ok(SymbolKind("Bss", <<>>))
          [] OTHER -> Err("UnknownSymbolKind", kind, ctx)

SymbolKind_should_write(kind) == kind.tag \in {"Function", "Data", "Bss"}

SymbolKind_fmt(kind) ==
    CASE kind.tag = "Function" ->
            K_function \o <<"(">> \o InstructionMode_fmt(kind.arg) \o <<")">>
      [] kind.tag = "Data" -> K_data \o <<"(">> \o SymData_fmt(kind.arg) \o <<")">>
      [] kind.tag = "Bss" -> K_bss
      [] OTHER -> <<>>

\* The attribute loop of Symbol::parse: acc holds kind and addr as Options.
RECURSIVE Symbol_parse_attrs(_, _, _)
Symbol_parse_attrs(pairs, acc, ctx) ==
    IF pairs = <<>> THEN Ok(acc)
    ELSE
      LET pair == Head(pairs)
          rest == Tail(pairs)
      IN  IF ~pair.ok THEN pair
          ELSE LET key   == pair.v[1]
                   value == pair.v[2]
               IN  CASE key = K_kind ->
                          LET r == SymbolKind_parse(value, ctx)
                          IN  IF r.ok
                              THEN Symbol_parse_attrs(rest, [acc EXCEPT !.kind = Some(r.v)], ctx)
                              ELSE r
                     [] key = K_addr ->
                          LET r == parse_u32(value)
                          IN  IF r.ok
                              THEN Symbol_parse_attrs(rest, [acc EXCEPT !.addr = Some(r.v)], ctx)
                              ELSE Err("ParseAddress", value, ctx)
                     [] OTHER -> Err("UnknownAttribute", key, ctx)

\* Symbol::parse: Result<Option<Symbol>>; a line without any word is Ok(None).
Symbol_parse(line, ctx) ==
    LET Finish(name, r) ==
            IF ~r.ok THEN r
            ELSE IF r.v.kind = None THEN Err("MissingAttribute", K_kind, ctx)
            ELSE IF r.v.addr = None THEN Err("MissingAttribute", K_addr, ctx)
            ELSE Ok(Some(Symbol(name, r.v.kind[1], r.v.addr[1])))
        Words(words) ==
            IF words = <<>> THEN Ok(None)
            ELSE Finish(Head(words),
                     Symbol_parse_attrs(iter_attributes_ctx(Tail(words), ctx),
                         [kind |-> None, addr |-> None], ctx))
    IN  Words(SplitWhitespace(line))

Symbol_should_write(symbol) == SymbolKind_should_write(symbol.kind)

\* impl Display for Symbol
Symbol_fmt(symbol) ==
    symbol.name \o <<" ">> \o K_kind \o <<":">> \o SymbolKind_fmt(symbol.kind) \o <<" ">>
        \o K_addr \o <<":">> \o FmtHex(symbol.addr)

(***************************************************************************)
(* SymbolMap: [symbols, symbols_by_address, symbols_by_name]; the indices  *)
(* map a key to the list of the 0-based positions of its symbols.          *)
(***************************************************************************)
\* entry(key).or_default().push(index)
PushIndex(map, key, index) ==
    Insert(map, key, IF key \in DOMAIN map THEN Append(map[key], index) ELSE <<index>>)

\* A SymbolMap::add that leaves the name index as it is.
SymbolMap_add_without_name(map, symbol) ==
    [symbols            |-> Append(map.symbols, symbol),
     symbols_by_address |-> PushIndex(map.symbols_by_address, symbol.addr, Len(map.symbols)),
     symbols_by_name    |-> map.symbols_by_name]

SymbolMap_add(map, symbol) ==
    LET index == Len(map.symbols)
    IN  [symbols            |-> Append(map.symbols, symbol),
         symbols_by_address |-> PushIndex(map.symbols_by_address, symbol.addr, index),
         symbols_by_name    |-> PushIndex(map.symbols_by_name, symbol.name, index)]

RECURSIVE SymbolMap_from_symbols_loop(_, _)
SymbolMap_from_symbols_loop(symbols, map) ==
    IF symbols = <<>> THEN map
    ELSE SymbolMap_from_symbols_loop(Tail(symbols), SymbolMap_add(map, Head(symbols)))

SymbolMap_from_symbols(symbols) ==
    SymbolMap_from_symbols_loop(symbols,
        [symbols |-> <<>>, symbols_by_address |-> <<>>, symbols_by_name |-> <<>>])

SymbolMap_new == SymbolMap_from_symbols(<<>>)

\* The lines to_file writes for the positions of one address index entry:
\* `if symbol.should_write() { writeln!(writer, "{symbol}") }` for each.
RECURSIVE SymbolMap_to_file_indices(_, _)
SymbolMap_to_file_indices(map, indices) ==
    IF indices = <<>> THEN <<>>
    ELSE LET symbol == map.symbols[Head(indices) + 1]
         IN  (IF Symbol_should_write(symbol) THEN <<Symbol_fmt(symbol)>> ELSE <<>>)
                 \o SymbolMap_to_file_indices(map, Tail(indices))

\* `for indices in self.symbols_by_address.values()`: a BTreeMap<u32, _> is
\* walked in ascending key order.
RECURSIVE SymbolMap_to_file_values(_, _)
SymbolMap_to_file_values(map, keys) ==
    IF keys = {} THEN <<>>
    ELSE LET first == CHOOSE a \in keys : \A b \in keys : U32Le(a, b)
         IN  SymbolMap_to_file_indices(map, map.symbols_by_address[first])
                 \o SymbolMap_to_file_values(map, keys \ {first})

\* A to_file that walks the symbol list instead of the address index.
SymbolMap_to_file_in_insertion_order(map) ==
    SymbolMap_to_file_indices(map, [i \in 1..Len(map.symbols) |-> i - 1])

\* SymbolMap::to_file: the lines of the written file.
SymbolMap_to_file(map) ==
    SymbolMap_to_file_values(map, DOMAIN map.symbols_by_address)

\* SymbolMap::for_address and for_name: Option of the (index, symbol) pairs
\* in the order of the index list.
SymbolMap_for_address(map, address) ==
    IF address \in DOMAIN map.symbols_by_address
    THEN Some([k \in 1..Len(map.symbols_by_address[address]) |->
                  <<map.symbols_by_address[address][k],
                    map.symbols[map.symbols_by_address[address][k] + 1]>>])
    ELSE None

SymbolMap_for_name(map, name) ==
    IF name \in DOMAIN map.symbols_by_name
    THEN Some([k \in 1..Len(map.symbols_by_name[name]) |->
                  <<map.symbols_by_name[name][k],
                    map.symbols[map.symbols_by_name[name][k] + 1]>>])
    ELSE None

\* SymbolMap::by_address with the first match returned whatever follows it.
SymbolMap_by_address_first(map, address) ==
    IF SymbolMap_for_address(map, address) = None THEN Ok(None)
    ELSE Ok(Some(SymbolMap_for_address(map, address)[1][1]))

\* SymbolMap::by_address: Option<(index, symbol)>, or the panic on a second
\* symbol at the address.
SymbolMap_by_address(map, address) ==
    IF SymbolMap_for_address(map, address) = None THEN Ok(None)
    ELSE IF Len(SymbolMap_for_address(map, address)[1]) > 1
    THEN Panic("multiple symbols at address")
    ELSE Ok(Some(SymbolMap_for_address(map, address)[1][1]))

\* SymbolMap::by_name: Result<Option<(index, symbol)>>.
SymbolMap_by_name(map, name) ==
    IF SymbolMap_for_name(map, name) = None THEN Ok(None)
    ELSE IF Len(SymbolMap_for_name(map, name)[1]) > 1
    THEN Err("MultipleSymbolsWithName", name, <<>>)
    ELSE Ok(Some(SymbolMap_for_name(map, name)[1][1]))

\* SymbolMap::add_if_new_address with the name index consulted.
SymbolMap_add_if_new_name(map, symbol) ==
    IF symbol.name \in DOMAIN map.symbols_by_name THEN map
    ELSE SymbolMap_add(map, symbol)

\* SymbolMap::add_if_new_address: the map afterwards; the call returns Ok(()).
SymbolMap_add_if_new_address(map, symbol) ==
    IF symbol.addr \in DOMAIN map.symbols_by_address THEN map
    ELSE SymbolMap_add(map, symbol)

SymbolMap_label_name(addr) == <<"_">> \o FmtHex08(addr)

Symbol_new_label(name, addr) == Symbol(name, SymbolKind("Label", <<>>), addr)

Symbol_new_pool_constant(name, addr) == Symbol(name, SymbolKind("PoolConstant", <<>>), addr)

SymJumpTable(size, code) == [size |-> size, code |-> code]

Symbol_new_jump_table(name, addr, size, code) ==
    Symbol(name, SymbolKind("JumpTable", SymJumpTable(size, code)), addr)

Symbol_new_data(name, addr, data) == Symbol(name, SymbolKind("Data", data), addr)

SymbolMap_add_label(map, addr) ==
    SymbolMap_add_if_new_address(map, Symbol_new_label(SymbolMap_label_name(addr), addr))

SymbolMap_add_pool_constant(map, addr) ==
    SymbolMap_add_if_new_address(map,
        Symbol_new_pool_constant(SymbolMap_label_name(addr), addr))

\* InstructionMode::from_thumb
InstructionMode_from_thumb(thumb) == IF thumb THEN "Thumb" ELSE "Arm"

\* Symbol::from_function; a function is [name, thumb, start_address], what
\* its name(), is_thumb() and start_address() give.
Symbol_from_function(function) ==
    Symbol(function.name,
           SymbolKind("Function", InstructionMode_from_thumb(function.thumb)),
           function.start_address)

SymbolMap_add_function(map, function) == SymbolMap_add(map, Symbol_from_function(function))

\* SymbolMap::add_jump_table; a table is [address, size, code].
SymbolMap_add_jump_table(map, table) ==
    SymbolMap_add(map,
        Symbol_new_jump_table(SymbolMap_label_name(table.address), table.address,
                              table.size, table.code))

\* SymbolMap::add_data; name is an Option.
SymbolMap_add_data(map, name, addr, data) ==
    SymbolMap_add(map,
        Symbol_new_data(IF name = None THEN SymbolMap_label_name(addr) ELSE name[1],
                        addr, data))

\* The getters by kind: what by_address gives, kept when the kind is the
\* expected one; the panic of by_address goes through.
SymbolMap_get_kind(found, tag) ==
    IF ~found.ok THEN found
    ELSE IF found.v = None THEN Ok(None)
    ELSE IF found.v[1][2].kind.tag = tag THEN Ok(Some(found.v[1][2]))
    ELSE Ok(None)

SymbolMap_get_payload(found, tag) ==
    IF ~found.ok THEN found
    ELSE IF found.v = None THEN Ok(None)
    ELSE IF found.v[1][2].kind.tag = tag
    THEN Ok(Some(<<found.v[1][2].kind.arg, found.v[1][2]>>))
    ELSE Ok(None)

\* SymbolMap::get_label without the comparison of the kind.
SymbolMap_get_label_of_any_kind(map, addr) ==
    IF ~SymbolMap_by_address(map, addr).ok THEN SymbolMap_by_address(map, addr)
    ELSE IF SymbolMap_by_address(map, addr).v = None THEN Ok(None)
    ELSE Ok(Some(SymbolMap_by_address(map, addr).v[1][2]))

SymbolMap_get_label(map, addr) == SymbolMap_get_kind(SymbolMap_by_address(map, addr), "Label")

SymbolMap_get_pool_constant(map, addr) ==
    SymbolMap_get_kind(SymbolMap_by_address(map, addr), "PoolConstant")

\* A get_jump_table that takes the first symbol at the address, however many
\* there are.
SymbolMap_get_jump_table_of_first(map, addr) ==
    SymbolMap_get_payload(
        IF SymbolMap_for_address(map, addr) = None THEN Ok(None)
        ELSE Ok(Some(SymbolMap_for_address(map, addr)[1][1])),
        "JumpTable")

SymbolMap_get_jump_table(map, addr) ==
    SymbolMap_get_payload(SymbolMap_by_address(map, addr), "JumpTable")

SymbolMap_get_data(map, addr) ==
    SymbolMap_get_payload(SymbolMap_by_address(map, addr), "Data")

\* LookupSymbol::lookup_symbol_name: Option<name>; source is not used.
SymbolMap_lookup_symbol_name_of(found) ==
    IF ~found.ok THEN found
    ELSE IF found.v = None THEN Ok(None)
    ELSE Ok(Some(found.v[1][2].name))

SymbolMap_lookup_symbol_name(map, source, destination) ==
    SymbolMap_lookup_symbol_name_of(SymbolMap_by_address(map, destination))

\* The line loop of SymbolMap::from_file; the line is parsed as read, with
\* no comment strip.
RECURSIVE SymbolMap_from_file_loop(_, _, _)
SymbolMap_from_file_loop(lines, row, map) ==
    IF lines = <<>> THEN Ok(map)
    ELSE LET Step(r) ==
                 IF ~r.ok THEN r
                 ELSE SymbolMap_from_file_loop(Tail(lines), row + 1,
                          IF r.v = None THEN map ELSE SymbolMap_add(map, r.v[1]))
         IN  Step(Symbol_parse(Head(lines), <<row + 1>>))

SymbolMap_from_file(lines) == SymbolMap_from_file_loop(lines, 0, SymbolMap_from_symbols(<<>>))

(***************************************************************************)
(* Section: [name, kind, start_address, end_address, alignment,            *)
(* functions]; functions maps a start address to its Function.             *)
(***************************************************************************)
K_start == <<"s","t","a","r","t">>

K_end == <<"e","n","d">>

K_align == <<"a","l","i","g","n">>

K_code == <<"c","o","d","e">>

SectionKinds == {"Code", "Data", "Bss"}

SectionOf(name, kind, start_address, end_address, alignment, functions) ==
    [name |-> name, kind |-> kind, start_address |-> start_address,
     end_address |-> end_address, alignment |-> alignment, functions |-> functions]

Section_with_functions(name, kind, start_address, end_address, alignment, functions) ==
    IF U32Lt(end_address, start_address)
    THEN Err("EndBeforeStart", <<name, start_address, end_address>>, <<>>)
    ELSE IF ~U32IsPowerOfTwo(alignment)
    THEN Err("AlignmentPowerOfTwo", <<name, alignment>>, <<>>)
    ELSE LET misalign_mask == U32Sub(alignment, U32(0, 1))
         IN  IF U32And(start_address, misalign_mask) # U32(0, 0)
             THEN Err("MisalignedStart", <<name, start_address, alignment>>, <<>>)
             ELSE Ok(SectionOf(name, kind, start_address, end_address, alignment, functions))

Section_new(name, kind, start_address, end_address, alignment) ==
    Section_with_functions(name, kind, start_address, end_address, alignment, <<>>)

Section_inherit(other, start_address, end_address) ==
    IF U32Lt(end_address, start_address)
    THEN Err("EndBeforeStart", <<other.name, start_address, end_address>>, <<>>)
    ELSE Ok(SectionOf(other.name, other.kind, start_address, end_address,
                      other.alignment, <<>>))

Section_overlaps_with(self, other) ==
    U32Lt(self.start_address, other.end_address)
        /\ U32Lt(other.start_address, self.end_address)

\* Section::code without the early return for a Bss section.
Section_code_of_any_kind(self, code, base_address) ==
    IF U32Lt(self.start_address, base_address)
    THEN Err("StartsBeforeBaseAddress", <<>>, <<>>)
    ELSE LET start == U32Sub(self.start_address, base_address)
             end   == U32Sub(self.end_address, base_address)
         IN  IF U32Lt(U32OfLen(Len(code)), end)
             THEN Err("EndsOutsideModule", <<>>, <<>>)
             ELSE Ok(Some(SubSeq(code, AsUsize(start) + 1, AsUsize(end))))

\* Section::code: Result<Option<bytes>>; code is a sequence of bytes.
Section_code(self, code, base_address) ==
    IF self.kind = "Bss" THEN Ok(None)
    ELSE IF U32Lt(self.start_address, base_address)
    THEN Err("StartsBeforeBaseAddress", <<>>, <<>>)
    ELSE LET start == U32Sub(self.start_address, base_address)
             end   == U32Sub(self.end_address, base_address)
         IN  IF U32Lt(U32OfLen(Len(code)), end)
             THEN Err("EndsOutsideModule", <<>>, <<>>)
             ELSE Ok(Some(SubSeq(code, AsUsize(start) + 1, AsUsize(end))))

Section_size(self) == U32Sub(self.end_address, self.start_address)

Section_address_range(self) == [start |-> self.start_address, end |-> self.end_address]

\* u32::next_multiple_of(4): an overflow panics in a build with overflow
\* checks and wraps around in one without.
U32_next_multiple_of_4(x, overflow_checks) ==
    LET r == x[2] % 4
    IN  IF r = 0 THEN Ok(x)
        ELSE IF U32AddOverflows(x, U32(0, 4 - r))
        THEN IF overflow_checks THEN Panic("attempt to add with overflow")
             ELSE Ok(U32WrappingAdd(x, U32(0, 4 - r)))
        ELSE Ok(U32WrappingAdd(x, U32(0, 4 - r)))

\* u32::from_le_slice: the first four bytes, least significant first.
U32_from_le_slice(bytes) ==
    IF Len(bytes) < 4 THEN Panic("range end index 4 out of range for slice")
    ELSE Ok(Word32(bytes))

\* The closure of iter_words applied to the addresses address, address + 4,
\* ... below end, as a consumer that takes every word sees it: the words
\* yielded, or the panic that ends the iteration.
RECURSIVE Section_iter_words_from(_, _, _, _, _, _)
Section_iter_words_from(self, code, address, end, overflow_checks, words) ==
    IF ~U32Lt(address, end) THEN Ok(words)
    ELSE IF overflow_checks /\ U32Lt(address, self.start_address)
    THEN Panic("attempt to subtract with overflow")
    ELSE LET offset == U32WrappingSub(address, self.start_address)
         IN  IF U32Lt(U32OfLen(Len(code)), offset)
             THEN Panic("range start index out of range for slice")
             ELSE LET value == U32_from_le_slice(SubSeq(code, AsUsize(offset) + 1, Len(code)))
                  IN  IF ~value.ok THEN value
                      ELSE Section_iter_words_from(self, code,
                               U32WrappingAdd(address, U32(0, 4)), end, overflow_checks,
                               Append(words, [address |-> address, value |-> value.v]))

\* Section::iter_words, consumed to its end.
Section_iter_words(self, code, range, overflow_checks) ==
    LET r     == IF range = None THEN Section_address_range(self) ELSE range[1]
        start == U32_next_multiple_of_4(r.start, overflow_checks)
        end   == <<r.end[1], r.end[2] - (r.end[2] % 4)>>
    IN  IF ~start.ok THEN start
        ELSE Section_iter_words_from(self, code, start.v, end, overflow_checks, <<>>)

SectionKind_parse(value, ctx) ==
    CASE value = K_code -> Ok("Code")
      [] value = K_data -> Ok("Data")
      [] value = K_bss  -> Ok("Bss")
      [] OTHER          -> Err("UnknownKind", value, ctx)

\* The attribute loop of Section::parse: kind, start, end and align as Options.
RECURSIVE Section_parse_attrs(_, _, _)
Section_parse_attrs(attrs, acc, ctx) ==
    IF attrs = <<>> THEN Ok(acc)
    ELSE
      LET key   == attrs[1][1]
          value == attrs[1][2]
          rest  == Tail(attrs)
      IN  CASE key = K_kind ->
                 LET r == SectionKind_parse(value, ctx)
                 IN  IF r.ok
                     THEN Section_parse_attrs(rest, [acc EXCEPT !.kind = Some(r.v)], ctx)
                     ELSE r
            [] key = K_start ->
                 LET r == parse_u32(value)
                 IN  IF r.ok
                     THEN Section_parse_attrs(rest, [acc EXCEPT !.start = Some(r.v)], ctx)
                     ELSE Err("ParseStartAddress", value, ctx)
            [] key = K_end ->
                 LET r == parse_u32(value)
                 IN  IF r.ok
                     THEN Section_parse_attrs(rest, [acc EXCEPT !.end = Some(r.v)], ctx)
                     ELSE Err("ParseEndAddress", value, ctx)
            [] key = K_align ->
                 LET r == parse_u32(value)
                 IN  IF r.ok
                     THEN Section_parse_attrs(rest, [acc EXCEPT !.align = Some(r.v)], ctx)
                     ELSE Err("ParseAlignment", value, ctx)
            [] OTHER -> Err("UnknownAttribute", key, ctx)

\* Section::parse: Result<Option<Section>>.  The arguments of Section::new
\* are evaluated in order, so the first missing attribute is reported.
Section_parse(line, ctx) ==
    LET words == SplitWhitespace(line)
    IN  IF words = <<>> THEN Ok(None)
        ELSE
          LET name == Head(words)
              r    == Section_parse_attrs(iter_attributes(Tail(words)),
                          [kind |-> None, start |-> None, end |-> None, align |-> None], ctx)
          IN  IF ~r.ok THEN r
              ELSE IF r.v.kind = None THEN Err("MissingAttribute", K_kind, ctx)
              ELSE IF r.v.start = None THEN Err("MissingAttribute", K_start, ctx)
              ELSE IF r.v.end = None THEN Err("MissingAttribute", K_end, ctx)
              ELSE IF r.v.align = None THEN Err("MissingAttribute", K_align, ctx)
              ELSE LET n == Section_new(name, r.v.kind[1], r.v.start[1], r.v.end[1],
                                        r.v.align[1])
                   IN  IF n.ok THEN Ok(Some(n.v)) ELSE Err("Section", n, ctx)

(***************************************************************************)
(* Sections: [sections, sections_by_name]; the name index maps a name to   *)
(* the 0-based position of its section.                                    *)
(***************************************************************************)
Sections_new == [sections |-> <<>>, sections_by_name |-> <<>>]

\* Sections::add without the loop over the stored sections.
Sections_add_unchecked_ranges(self, section) ==
    IF section.name \in DOMAIN self.sections_by_name
    THEN [sections |-> self, result |-> Err("DuplicateName", section.name, <<>>)]
    ELSE [sections |-> [sections         |-> Append(self.sections, section),
                        sections_by_name |-> Insert(self.sections_by_name,
                                                    section.name, Len(self.sections))],
          result   |-> Ok(Len(self.sections))]

\* Sections::add without the look-up in the name index.
Sections_add_unchecked_name(self, section) ==
    IF \E i \in 1..Len(self.sections) : Section_overlaps_with(section, self.sections[i])
    THEN [sections |-> self,
          result   |-> Err("Overlapping", <<section.name, section.name>>, <<>>)]
    ELSE [sections |-> [sections         |-> Append(self.sections, section),
                        sections_by_name |-> Insert(self.sections_by_name,
                                                    section.name, Len(self.sections))],
          result   |-> Ok(Len(self.sections))]

\* Sections::add: the collection afterwards and the returned Result.
Sections_add(self, section) ==
    IF section.name \in DOMAIN self.sections_by_name
    THEN [sections |-> self, result |-> Err("DuplicateName", section.name, <<>>)]
    ELSE IF \E i \in 1..Len(self.sections) : Section_overlaps_with(section, self.sections[i])
    THEN LET i == CHOOSE i \in 1..Len(self.sections) :
                      /\ Section_overlaps_with(section, self.sections[i])
                      /\ \A j \in 1..(i - 1) :
                             ~Section_overlaps_with(section, self.sections[j])
         IN  [sections |-> self,
              result   |-> Err("Overlapping", <<section.name, self.sections[i].name>>, <<>>)]
    ELSE LET index == Len(self.sections)
         IN  [sections |-> [sections         |-> Append(self.sections, section),
                            sections_by_name |-> Insert(self.sections_by_name,
                                                        section.name, index)],
              result   |-> Ok(index)]

Sections_by_name(self, name) ==
    IF name \in DOMAIN self.sections_by_name
    THEN Some(<<self.sections_by_name[name], self.sections[self.sections_by_name[name] + 1]>>)
    ELSE None

\* Sections::get: indexing the vector panics past its end.
Sections_get(self, index) ==
    IF index < Len(self.sections)
    THEN Ok(self.sections[index + 1])
    ELSE Panic("index out of bounds")

\* Sections::get_by_contained_address with the end address counted in.
Sections_get_by_inclusive_range(self, address) ==
    LET Contains(s) == U32Le(s.start_address, address) /\ U32Le(address, s.end_address)
    IN  IF \E i \in 1..Len(self.sections) : Contains(self.sections[i])
        THEN LET i == CHOOSE i \in 1..Len(self.sections) :
                          /\ Contains(self.sections[i])
                          /\ \A j \in 1..(i - 1) : ~Contains(self.sections[j])
             IN  Some(<<i - 1, self.sections[i]>>)
        ELSE None

\* Sections::get_by_contained_address: the first section, in stored order,
\* with start_address <= address < end_address.
Sections_get_by_contained_address(self, address) ==
    LET Contains(s) == U32Le(s.start_address, address) /\ U32Lt(address, s.end_address)
    IN  IF \E i \in 1..Len(self.sections) : Contains(self.sections[i])
        THEN LET i == CHOOSE i \in 1..Len(self.sections) :
                          /\ Contains(self.sections[i])
                          /\ \A j \in 1..(i - 1) : ~Contains(self.sections[j])
             IN  Some(<<i - 1, self.sections[i]>>)
        ELSE None

\* `.filter(|s| s.kind == SectionKind::Bss)`
Sections_bss_sections(self) == SelectSeq(self.sections, LAMBDA s : s.kind = "Bss")

\* Sections::bss_size: the sum of the sizes of the Bss sections.  The stored
\* sections are disjoint, so the sum stays below 2^32.
RECURSIVE Sections_bss_size_sum(_)
Sections_bss_size_sum(list) ==
    IF list = <<>> THEN U32(0, 0)
    ELSE U32WrappingAdd(Section_size(Head(list)), Sections_bss_size_sum(Tail(list)))

Sections_bss_size(self) == Sections_bss_size_sum(Sections_bss_sections(self))

\* `.reduce(|a, b| a.start.min(b.start)..a.end.max(b.end))`
RECURSIVE Sections_bss_range_reduce(_, _)
Sections_bss_range_reduce(a, list) ==
    IF list = <<>> THEN a
    ELSE LET b == Section_address_range(Head(list))
         IN  Sections_bss_range_reduce(
                 [start |-> IF U32Le(a.start, b.start) THEN a.start ELSE b.start,
                  end   |-> IF U32Le(a.end, b.end) THEN b.end ELSE a.end],
                 Tail(list))

\* Sections::bss_range: None without a Bss section.
Sections_bss_range(self) ==
    LET list == Sections_bss_sections(self)
    IN  IF list = <<>> THEN None
        ELSE Some(Sections_bss_range_reduce(Section_address_range(Head(list)), Tail(list)))

\* Sections::sorted_by_address: sort_unstable_by_key leaves the order of
\* sections with equal start_address open, so this is the set of vectors
\* the call may return: the orderings of the stored positions that ascend
\* by start_address.
Sections_sorted_by_address(self) ==
    LET n == Len(self.sections)
        Orders == {o \in [1..n -> 1..n] :
                     /\ \A i, j \in 1..n : i # j => o[i] # o[j]
                     /\ \A i \in 1..(n - 1) :
                            U32Le(self.sections[o[i]].start_address,
                                  self.sections[o[i + 1]].start_address)}
    IN  {[i \in 1..n |-> self.sections[o[i]]] : o \in Orders}

\* The attribute loop of Section::parse_inherit with kind and align passed
\* over instead of refused.
RECURSIVE Section_parse_inherit_attrs_lenient(_, _, _)
Section_parse_inherit_attrs_lenient(attrs, acc, ctx) ==
    IF attrs = <<>> THEN Ok(acc)
    ELSE
      LET key   == attrs[1][1]
          value == attrs[1][2]
          rest  == Tail(attrs)
      IN  CASE key = K_kind -> Section_parse_inherit_attrs_lenient(rest, acc, ctx)
            [] key = K_start ->
                 LET r == parse_u32(value)
                 IN  IF r.ok
                     THEN Section_parse_inherit_attrs_lenient(rest,
                              [acc EXCEPT !.start = Some(r.v)], ctx)
                     ELSE Err("ParseStartAddress", value, ctx)
            [] key = K_end ->
                 LET r == parse_u32(value)
                 IN  IF r.ok
                     THEN Section_parse_inherit_attrs_lenient(rest,
                              [acc EXCEPT !.end = Some(r.v)], ctx)
                     ELSE Err("ParseEndAddress", value, ctx)
            [] key = K_align -> Section_parse_inherit_attrs_lenient(rest, acc, ctx)
            [] OTHER -> Err("UnknownAttribute", key, ctx)

\* The attribute loop of Section::parse_inherit: start and end as Options.
RECURSIVE Section_parse_inherit_attrs(_, _, _)
Section_parse_inherit_attrs(attrs, acc, ctx) ==
    IF attrs = <<>> THEN Ok(acc)
    ELSE
      LET key   == attrs[1][1]
          value == attrs[1][2]
          rest  == Tail(attrs)
      IN  CASE key = K_kind -> Err("InheritedAttribute", K_kind, ctx)
            [] key = K_start ->
                 LET r == parse_u32(value)
                 IN  IF r.ok
                     THEN Section_parse_inherit_attrs(rest, [acc EXCEPT !.start = Some(r.v)], ctx)
                     ELSE Err("ParseStartAddress", value, ctx)
            [] key = K_end ->
                 LET r == parse_u32(value)
                 IN  IF r.ok
                     THEN Section_parse_inherit_attrs(rest, [acc EXCEPT !.end = Some(r.v)], ctx)
                     ELSE Err("ParseEndAddress", value, ctx)
            [] key = K_align -> Err("InheritedAttribute", K_align, ctx)
            [] OTHER -> Err("UnknownAttribute", key, ctx)

Section_parse_inherit(line, ctx, sections) ==
    LET words == SplitWhitespace(line)
    IN  IF words = <<>> THEN Ok(None)
        ELSE
          LET name  == Head(words)
              found == Sections_by_name(sections, name)
          IN  IF found = None THEN Err("NotInHeader", name, ctx)
              ELSE
                LET inherit_section == found[1][2]
                    r == Section_parse_inherit_attrs(iter_attributes(Tail(words)),
                             [start |-> None, end |-> None], ctx)
                IN  IF ~r.ok THEN r
                    ELSE IF r.v.start = None THEN Err("MissingAttribute", K_start, ctx)
                    ELSE IF r.v.end = None THEN Err("MissingAttribute", K_end, ctx)
                    ELSE LET n == Section_inherit(inherit_section, r.v.start[1], r.v.end[1])
                         IN  IF n.ok THEN Ok(Some(n.v)) ELSE Err("Section", n, ctx)

(***************************************************************************)
(* Inputs.  The texts the operations are applied to are put together from  *)
(* small sets of tokens; the addresses and records of the table and of the *)
(* sections come from small sets that hold the boundary values.            *)
(***************************************************************************)
\* 0x00000100
T_hex_100 == <<"0","x","0","0","0","0","0","1","0","0">>

\* 4294967295
T_dec_max == <<"4","2","9","4","9","6","7","2","9","5">>

\* 0x200
T_hex_200 == <<"0","x","2","0","0">>

\* call
T_call == <<"c","a","l","l">>

\* overlay(3)
T_overlay_3 == <<"o","v","e","r","l","a","y","(","3",")">>

\* overlays(1,2)
T_overlays_1_2 == <<"o","v","e","r","l","a","y","s","(","1",",","2",")">>

\* none(x)
T_none_x == <<"n","o","n","e","(","x",")">>

\* 4
T_4 == <<"4">>

\* -8
T_minus_8 == <<"-","8">>

\* -2147483648
T_i32_min == <<"-","2","1","4","7","4","8","3","6","4","8">>

\* 0x10
T_hex_10 == <<"0","x","1","0">>

\* 2147483647
T_i32_max == <<"2","1","4","7","4","8","3","6","4","7">>

\* zz
T_zz == <<"z","z">>

\* bogus
T_bogus == <<"b","o","g","u","s">>

\* _02000000
T_name_label == <<"_","0","2","0","0","0","0","0","0">>

\* function()
T_function_empty == <<"f","u","n","c","t","i","o","n","(",")">>

\* function(auto)
T_function_auto == <<"f","u","n","c","t","i","o","n","(","a","u","t","o",")">>

\* function(arm)
T_function_arm == <<"f","u","n","c","t","i","o","n","(","a","r","m",")">>

\* function(thumb)
T_function_thumb == <<"f","u","n","c","t","i","o","n","(","t","h","u","m","b",")">>

\* function(x)
T_function_x == <<"f","u","n","c","t","i","o","n","(","x",")">>

\* data(byte)
T_data_byte == <<"d","a","t","a","(","b","y","t","e",")">>

\* data(word)
T_data_word == <<"d","a","t","a","(","w","o","r","d",")">>

\* data(byte,count=3)
T_data_byte_3 == <<"d","a","t","a","(","b","y","t","e",",","c","o","u","n","t","=","3",")">>

\* data(count=2)
T_data_count_2 == <<"d","a","t","a","(","c","o","u","n","t","=","2",")">>

\* data(word,count=1)
T_data_word_1 == <<"d","a","t","a","(","w","o","r","d",",","c","o","u","n","t","=","1",")">>

\* data(word,count=0x10)
T_data_word_hex == <<"d","a","t","a","(","w","o","r","d",",","c","o","u","n","t","=","0","x","1","0",")">>

\* data(byte,word)
T_data_byte_word == <<"d","a","t","a","(","b","y","t","e",",","w","o","r","d",")">>

\* data(byte,count=zz)
T_data_count_zz == <<"d","a","t","a","(","b","y","t","e",",","c","o","u","n","t","=","z","z",")">>

\* data(byte,size=2)
T_data_size == <<"d","a","t","a","(","b","y","t","e",",","s","i","z","e","=","2",")">>

\* bss(x)
T_bss_x == <<"b","s","s","(","x",")">>

\* 0x2000000
T_hex_2000000 == <<"0","x","2","0","0","0","0","0","0">>

\* 33554432
T_dec_2000000 == <<"3","3","5","5","4","4","3","2">>

\* 0xffffffff
T_hex_max == <<"0","x","f","f","f","f","f","f","f","f">>

Attr(key, value) == key \o <<":">> \o value

U32Texts == {T_hex_100, T_dec_max}

ToTexts == {T_hex_200}

KindTexts ==
    {K_arm_call, K_thumb_call, K_arm_call_thumb, K_thumb_call_arm, K_arm_branch, K_load,
     T_call}

ModuleTexts == {K_none, K_main, T_overlay_3, T_overlays_1_2, T_none_x}

\* The add attribute: <<>> when the line has none, <<text>> otherwise.
AddTexts ==
    {<<>>, <<T_4>>, <<T_minus_8>>, <<T_i32_min>>, <<T_hex_10>>, <<T_i32_max>>, <<T_zz>>}

\* A relocation line in the order Display writes it (add last), or with
\* the attributes in another order and wider gaps.
RelocationLine(from, to, kind, module, add, canonical) ==
    LET addWord == IF add = <<>> THEN <<>> ELSE <<Attr(K_add, add[1])>>
    IN  IF canonical
        THEN Join(<<Attr(K_from, from), Attr(K_kind, kind), Attr(K_to, to),
                    Attr(K_module, module)>> \o addWord, <<" ">>)
        ELSE Join(addWord \o <<Attr(K_module, module), Attr(K_to, to),
                                Attr(K_from, from), Attr(K_kind, kind)>>, <<" ", " ">>)

RelocationInputs ==
    {RelocationLine(f, t, k, m, a, c) :
        f \in U32Texts, t \in ToTexts, k \in KindTexts, m \in ModuleTexts,
        a \in AddTexts, c \in BOOLEAN}
    \cup {<<>>, Attr(K_from, T_hex_100), Attr(T_bogus, T_4)}

SymbolNames == {K_main, T_name_label}

SymbolKindTexts ==
    {K_function, T_function_empty, T_function_auto, T_function_arm, T_function_thumb,
     T_function_x, K_data, T_data_byte, T_data_word, T_data_byte_3, T_data_count_2,
     T_data_word_1, T_data_word_hex, T_data_byte_word, T_data_count_zz, T_data_size,
     K_bss, T_bss_x, T_bogus}

AddrTexts == {T_hex_2000000, T_dec_2000000, T_hex_max, T_zz}

SymbolLine(name, kind, addr, canonical) ==
    IF canonical THEN Join(<<name, Attr(K_kind, kind), Attr(K_addr, addr)>>, <<" ">>)
    ELSE Join(<<name, Attr(K_addr, addr), Attr(K_kind, kind)>>, <<"\t">>)

SymbolInputs ==
    {SymbolLine(n, k, a, c) :
        n \in SymbolNames, k \in SymbolKindTexts, a \in AddrTexts, c \in BOOLEAN}
    \cup {<<>>, <<" ">>, K_main, K_main \o <<" ">> \o Attr(K_kind, K_bss),
          K_main \o <<" ">> \o K_bss, K_main \o <<" ">> \o Attr(T_bogus, T_4)}

\* A module token by its shape: the base word, the parentheses ("none",
\* "closed" or "open", the last without the closing one), and the option
\* items, each the text of an item with its u16 value when it has one.
Item(text, value) == [text |-> text, value |-> value]

ModuleItems ==
    {Item(<<"1">>, Some(1)), Item(<<"2">>, Some(2)), Item(<<"3">>, Some(3)),
     Item(T_hex_10, Some(16)), Item(<<"7","0","0","0","0">>, None),
     Item(<<"x">>, None), Item(<<>>, None)}

ModuleBases == {K_none, K_main, K_itcm, K_dtcm, K_overlay, K_overlays, T_bogus}

MaxItems == 2

ItemLists == UNION {[1..n -> ModuleItems] : n \in 0..MaxItems}

RECURSIVE ItemTexts(_)
ItemTexts(items) ==
    IF items = <<>> THEN <<>> ELSE <<Head(items).text>> \o ItemTexts(Tail(items))

ModuleText(base, parens, items) ==
    CASE parens = "none"   -> base
      [] parens = "closed" -> base \o <<"(">> \o Join(ItemTexts(items), <<",">>) \o <<")">>
      [] parens = "open"   -> base \o <<"(">> \o Join(ItemTexts(items), <<",">>)

ModuleShapes ==
    {[base |-> b, parens |-> p, items |-> i] :
        b \in ModuleBases, p \in {"closed", "open"}, i \in ItemLists}
    \cup {[base |-> b, parens |-> "none", items |-> <<>>] : b \in ModuleBases}

\* The records handed to Relocations::add: any field values, the source
\* annotation included (a pub field the caller may set).
TableFroms == {U32(0, 256), U32(B16 - 1, B16 - 1)}

TableTos == {U32(0, 512), U32(0, 768)}

TableAddends == {0, 4}

TableKinds == {"ArmCall", "Load"}

TableModules == {Module("Main", <<>>), Module("Overlay", <<3>>)}

TableSources == {None, Some(<<"x">>)}

\* The records offered to add: for each from, a base record and the records
\* that differ from it in exactly one field.
TableBase(f) == Relocation(f, U32(0, 512), 0, "ArmCall", Module("Main", <<>>), None)

TableRelocations ==
    UNION {{TableBase(f)}
           \cup {[TableBase(f) EXCEPT !.to = t] : t \in TableTos}
           \cup {[TableBase(f) EXCEPT !.addend = a] : a \in TableAddends}
           \cup {[TableBase(f) EXCEPT !.kind = k] : k \in TableKinds}
           \cup {[TableBase(f) EXCEPT !.module = m] : m \in TableModules}
           \cup {[TableBase(f) EXCEPT !.source = x] : x \in TableSources} :
           f \in TableFroms}

(***************************************************************************)
(* State.                                                                  *)
(*   relocations, relCall : the relocation table and the last call on it   *)
(*       ([op, args, before, result]; op is "new" before any call).        *)
(*   txIn, txStage, txParsed, txWritten, txReparsed, txAddend : one text   *)
(*       and what parsing it, writing the record back, parsing that again  *)
(*       and taking the effective addend gave.                             *)
(*   ldIn, ldOut : a file ([what, lines]) and the result of loading it.    *)
(*   sections, secOut : a Sections collection and the last call on it or   *)
(*       on a Section ([op, result], with args and before for the calls    *)
(*       that take them).                                                  *)
(*   symbols, symCall : a SymbolMap and the last call on it ([op, args,    *)
(*       before, result]; op is "new" before any call).                    *)
(***************************************************************************)
VARIABLES relocations, relCall, txIn, txStage, txParsed, txWritten, txReparsed,
          txAddend, ldIn, ldOut, sections, secOut, symbols, symCall

tableVars == <<relocations, relCall>>

textVars == <<txIn, txStage, txParsed, txWritten, txReparsed, txAddend>>

loadVars == <<ldIn, ldOut>>

sectionVars == <<sections, secOut>>

symbolVars == <<symbols, symCall>>

vars == <<tableVars, textVars, loadVars, sectionVars, symbolVars>>

NoCall == [op |-> "new"]

NoResult == [ok |-> FALSE, err |-> "NotCalled"]

(***************************************************************************)
(* The relocation table.                                                   *)
(***************************************************************************)
TableInit ==
    /\ relocations = Relocations_new
    /\ relCall = NoCall

Add(relocation) ==
    LET out == Relocations_add(relocations, relocation)
    IN  /\ relocations' = out.table
        /\ relCall' = [op |-> "add", args |-> relocation, before |-> relocations,
                       result |-> out.result]
        /\ UNCHANGED <<textVars, loadVars, sectionVars, symbolVars>>

AddCall(from, to, module, from_thumb, to_thumb) ==
    LET out == Relocations_add_call(relocations, from, to, module, from_thumb, to_thumb)
    IN  /\ relocations' = out.table
        /\ relCall' = [op |-> "add_call",
                       args |-> [from |-> from, to |-> to, module |-> module,
                                 from_thumb |-> from_thumb, to_thumb |-> to_thumb],
                       before |-> relocations, result |-> out.result]
        /\ UNCHANGED <<textVars, loadVars, sectionVars, symbolVars>>

AddLoad(from, to, addend, module) ==
    LET out == Relocations_add_load(relocations, from, to, addend, module)
    IN  /\ relocations' = out.table
        /\ relCall' = [op |-> "add_load",
                       args |-> [from |-> from, to |-> to, addend |-> addend,
                                 module |-> module],
                       before |-> relocations, result |-> out.result]
        /\ UNCHANGED <<textVars, loadVars, sectionVars, symbolVars>>

TableNext ==
    \/ \E r \in TableRelocations : Add(r)
    \/ \E f \in TableFroms, t \in TableTos, m \in TableModules, ft \in BOOLEAN,
          tt \in BOOLEAN : AddCall(f, t, m, ft, tt)
    \/ \E f \in TableFroms, t \in TableTos, a \in TableAddends, m \in TableModules :
          AddLoad(f, t, a, m)

(***************************************************************************)
(* One text through the parsers and the Display implementations.           *)
(***************************************************************************)
Ctx1 == <<1>>

TextInputs ==
    {[what |-> "relocation", text |-> l, shape |-> <<>>] : l \in RelocationInputs}
    \cup {[what |-> "symbol", text |-> l, shape |-> <<>>] : l \in SymbolInputs}
    \cup {[what |-> "module", text |-> ModuleText(s.base, s.parens, s.items), shape |-> s] :
             s \in ModuleShapes}

TextIdle ==
    /\ txIn = [what |-> "none", text |-> <<>>, shape |-> <<>>]
    /\ txStage = "idle"
    /\ txParsed = NoResult
    /\ txWritten = <<>>
    /\ txReparsed = NoResult
    /\ txAddend = <<>>

TextInit ==
    /\ txIn \in TextInputs
    /\ txStage = "input"
    /\ txParsed = NoResult
    /\ txWritten = <<>>
    /\ txReparsed = NoResult
    /\ txAddend = <<>>

ParseRelocation ==
    /\ txStage = "input" /\ txIn.what = "relocation"
    /\ txParsed' = Relocation_parse(txIn.text, Ctx1)
    /\ txStage' = "parsed"
    /\ UNCHANGED <<txIn, txWritten, txReparsed, txAddend, tableVars, loadVars, sectionVars, symbolVars>>

WriteRelocation ==
    /\ txStage = "parsed" /\ txIn.what = "relocation" /\ txParsed.ok
    /\ txWritten' = Relocation_fmt(txParsed.v[1])
    /\ txStage' = "written"
    /\ UNCHANGED <<txIn, txParsed, txReparsed, txAddend, tableVars, loadVars, sectionVars, symbolVars>>

ReparseRelocation ==
    /\ txStage = "written" /\ txIn.what = "relocation"
    /\ txReparsed' = Relocation_parse(txWritten, Ctx1)
    /\ txStage' = "reparsed"
    /\ UNCHANGED <<txIn, txParsed, txWritten, txAddend, tableVars, loadVars, sectionVars, symbolVars>>

\* addend() and addend_value() of the parsed relocation.
TakeAddend ==
    /\ txStage = "parsed" /\ txIn.what = "relocation" /\ txParsed.ok
    /\ txAddend' = <<[addend       |-> Relocation_addend(txParsed.v[1]),
                      addend_value |-> Relocation_addend_value(txParsed.v[1])]>>
    /\ txStage' = "addend"
    /\ UNCHANGED <<txIn, txParsed, txWritten, txReparsed, tableVars, loadVars, sectionVars, symbolVars>>

ParseSymbol ==
    /\ txStage = "input" /\ txIn.what = "symbol"
    /\ txParsed' = Symbol_parse(txIn.text, Ctx1)
    /\ txStage' = "parsed"
    /\ UNCHANGED <<txIn, txWritten, txReparsed, txAddend, tableVars, loadVars, sectionVars, symbolVars>>

WriteSymbol ==
    /\ txStage = "parsed" /\ txIn.what = "symbol" /\ txParsed.ok /\ txParsed.v # None
    /\ txWritten' = Symbol_fmt(txParsed.v[1])
    /\ txStage' = "written"
    /\ UNCHANGED <<txIn, txParsed, txReparsed, txAddend, tableVars, loadVars, sectionVars, symbolVars>>

ReparseSymbol ==
    /\ txStage = "written" /\ txIn.what = "symbol"
    /\ txReparsed' = Symbol_parse(txWritten, Ctx1)
    /\ txStage' = "reparsed"
    /\ UNCHANGED <<txIn, txParsed, txWritten, txAddend, tableVars, loadVars, sectionVars, symbolVars>>

ParseModule ==
    /\ txStage = "input" /\ txIn.what = "module"
    /\ txParsed' = RelocationModule_parse(txIn.text, Ctx1)
    /\ txStage' = "parsed"
    /\ UNCHANGED <<txIn, txWritten, txReparsed, txAddend, tableVars, loadVars, sectionVars, symbolVars>>

TextNext ==
    \/ ParseRelocation
    \/ WriteRelocation
    \/ ReparseRelocation
    \/ TakeAddend
    \/ ParseSymbol
    \/ WriteSymbol
    \/ ReparseSymbol
    \/ ParseModule

(***************************************************************************)
(* Loading a file: Relocations::from_file and SymbolMap::from_file on the  *)
(* lines of a file.                                                        *)
(***************************************************************************)
\* from:0x00000100 kind:arm_call to:0x200 module:main
L_rel_a ==
    <<"f","r","o","m",":","0","x","0","0","0","0","0","1","0","0"," ","k","i","n","d",":","a","r","m","_","c","a","l","l"," ","t","o",":","0","x","2","0","0"," ","m","o","d","u","l","e",":","m","a","i","n">>

\* from:0x00000100 kind:arm_call to:0x300 module:main
L_rel_b ==
    <<"f","r","o","m",":","0","x","0","0","0","0","0","1","0","0"," ","k","i","n","d",":","a","r","m","_","c","a","l","l"," ","t","o",":","0","x","3","0","0"," ","m","o","d","u","l","e",":","m","a","i","n">>

\* from:0x200 kind:load to:0x100 module:overlay(3) add:4 // pool
L_rel_c ==
    <<"f","r","o","m",":","0","x","2","0","0"," ","k","i","n","d",":","l","o","a","d"," ","t","o",":","0","x","1","0","0"," ","m","o","d","u","l","e",":","o","v","e","r","l","a","y","(","3",")"," ","a","d","d",":","4"," ","/","/"," ","p","o","o","l">>

\* from:0x100 kind:call to:0x200 module:main
L_rel_bad ==
    <<"f","r","o","m",":","0","x","1","0","0"," ","k","i","n","d",":","c","a","l","l"," ","t","o",":","0","x","2","0","0"," ","m","o","d","u","l","e",":","m","a","i","n">>

\* // note
L_comment == <<"/","/"," ","n","o","t","e">>

\* main kind:function(arm) addr:0x2000000
L_sym_a ==
    <<"m","a","i","n"," ","k","i","n","d",":","f","u","n","c","t","i","o","n","(","a","r","m",")"," ","a","d","d","r",":","0","x","2","0","0","0","0","0","0">>

\* data_1 kind:data(word,count=2) addr:0x2000000
L_sym_b ==
    <<"d","a","t","a","_","1"," ","k","i","n","d",":","d","a","t","a","(","w","o","r","d",",","c","o","u","n","t","=","2",")"," ","a","d","d","r",":","0","x","2","0","0","0","0","0","0">>

\* main kind:bss
L_sym_bad == <<"m","a","i","n"," ","k","i","n","d",":","b","s","s">>

\* tbl kind:data(byte,count=zz) addr:0x2000200
L_sym_count ==
    <<"t","b","l"," ","k","i","n","d",":","d","a","t","a","(","b","y","t","e",",","c","o","u","n","t","=","z","z",")"," ","a","d","d","r",":","0","x","2","0","0","0","2","0","0">>

RelocationFileLines == {L_rel_a, L_rel_b, L_rel_c, L_rel_bad, L_comment, <<>>}

SymbolFileLines == {L_sym_a, L_sym_b, L_sym_bad, L_sym_count, L_comment, <<>>}

MaxLines == 3

FilesOf(pool) == UNION {[1..n -> pool] : n \in 0..MaxLines}

LoadInputs ==
    {[what |-> "relocations", lines |-> f] : f \in FilesOf(RelocationFileLines)}
    \cup {[what |-> "symbols", lines |-> f] : f \in FilesOf(SymbolFileLines)}

NotCalled(r) == ~r.ok /\ r.err = "NotCalled"

LoadIdle ==
    /\ ldIn = [what |-> "none", lines |-> <<>>]
    /\ ldOut = NoResult

LoadInit ==
    /\ ldIn \in LoadInputs
    /\ ldOut = NoResult

LoadRelocations ==
    /\ ldIn.what = "relocations" /\ NotCalled(ldOut)
    /\ ldOut' = Relocations_from_file(ldIn.lines)
    /\ UNCHANGED <<ldIn, tableVars, textVars, sectionVars, symbolVars>>

LoadSymbols ==
    /\ ldIn.what = "symbols" /\ NotCalled(ldOut)
    /\ ldOut' = SymbolMap_from_file(ldIn.lines)
    /\ UNCHANGED <<ldIn, tableVars, textVars, sectionVars, symbolVars>>

LoadNext ==
    \/ LoadRelocations
    \/ LoadSymbols

(***************************************************************************)
(* Section constructors, over a small header collection.                   *)
(***************************************************************************)
T_text == <<".","t","e","x","t">>

T_dot_bss == <<".","b","s","s">>

\* .text kind:code start:0x0 end:0x8 align:4
L_sec_text ==
    <<".","t","e","x","t"," ","k","i","n","d",":","c","o","d","e"," ","s","t","a","r","t",":","0","x","0"," ","e","n","d",":","0","x","8"," ","a","l","i","g","n",":","4">>

\* .text kind:code start:0x2 end:0x8 align:4
L_sec_misaligned ==
    <<".","t","e","x","t"," ","k","i","n","d",":","c","o","d","e"," ","s","t","a","r","t",":","0","x","2"," ","e","n","d",":","0","x","8"," ","a","l","i","g","n",":","4">>

\* .bss kind:bss start:8 end:0x10 align:3
L_sec_align_3 ==
    <<".","b","s","s"," ","k","i","n","d",":","b","s","s"," ","s","t","a","r","t",":","8"," ","e","n","d",":","0","x","1","0"," ","a","l","i","g","n",":","3">>

\* .text kind:code start:8 end:4 align:4
L_sec_reversed ==
    <<".","t","e","x","t"," ","k","i","n","d",":","c","o","d","e"," ","s","t","a","r","t",":","8"," ","e","n","d",":","4"," ","a","l","i","g","n",":","4">>

\* .text start:0x2 end:0x8
L_inh_2_8 ==
    <<".","t","e","x","t"," ","s","t","a","r","t",":","0","x","2"," ","e","n","d",":","0","x","8">>

\* .text start:0x4 end:0x8
L_inh_4_8 ==
    <<".","t","e","x","t"," ","s","t","a","r","t",":","0","x","4"," ","e","n","d",":","0","x","8">>

\* .bss start:8 end:4
L_inh_8_4 == <<".","b","s","s"," ","s","t","a","r","t",":","8"," ","e","n","d",":","4">>

\* .data start:0 end:4
L_inh_data == <<".","d","a","t","a"," ","s","t","a","r","t",":","0"," ","e","n","d",":","4">>

\* .text start:0 end:8 align:4
L_inh_align ==
    <<".","t","e","x","t"," ","s","t","a","r","t",":","0"," ","e","n","d",":","8"," ","a","l","i","g","n",":","4">>

\* .text kind:code start:0 end:8
L_inh_kind ==
    <<".","t","e","x","t"," ","k","i","n","d",":","c","o","d","e"," ","s","t","a","r","t",":","0"," ","e","n","d",":","8">>

\* .text bogus:1 kind:code
L_inh_bogus_kind ==
    <<".","t","e","x","t"," ","b","o","g","u","s",":","1"," ","k","i","n","d",":","c","o","d","e">>

\* .text start:0
L_inh_no_end == <<".","t","e","x","t"," ","s","t","a","r","t",":","0">>

SectionNames == {T_text, T_dot_bss}

\* The name and kind given to a constructor.
SectionNameKinds == {<<T_text, "Code">>, <<T_dot_bss, "Bss">>}

SectionAddrs == {U32(0, 0), U32(0, 2), U32(0, 8), U32(B16 - 1, B16 - 4)}

SectionAligns == {U32(0, 0), U32(0, 1), U32(0, 3), U32(0, 4), U32(1, 0), U32(2^15, 0)}

\* A non-empty map of attached functions.
SomeFunctions == [a \in {U32(0, 0)} |-> "func_00000000"]

\* The sections a header declares.
HeaderSections ==
    {Section_new(n, k, a, U32(0, 8), U32(0, 4)).v :
        n \in SectionNames, k \in {"Code", "Bss"}, a \in {U32(0, 0), U32(0, 8)}}

MaxSections == 2

SectionLines ==
    {L_sec_text, L_sec_misaligned, L_sec_align_3, L_sec_reversed, L_inh_2_8, L_inh_4_8,
     L_inh_8_4, L_inh_data, L_inh_align, L_inh_kind, L_inh_bogus_kind, L_inh_no_end, <<>>}

SectionInit ==
    /\ sections = Sections_new
    /\ secOut = [op |-> "none", result |-> NoResult]

\* A call that would grow the collection past MaxSections is left out.
SectionsAdd(section) ==
    /\ Len(sections.sections) < MaxSections \/ ~Sections_add(sections, section).result.ok
    /\ sections' = Sections_add(sections, section).sections
    /\ secOut' = [op |-> "add", args |-> section, before |-> sections,
                  result |-> Sections_add(sections, section).result]
    /\ UNCHANGED <<tableVars, textVars, loadVars, symbolVars>>

SectionNew(name, kind, start_address, end_address, alignment) ==
    /\ secOut' = [op |-> "new",
                  result |-> Section_new(name, kind, start_address, end_address, alignment)]
    /\ UNCHANGED <<sections, tableVars, textVars, loadVars, symbolVars>>

SectionWithFunctions(name, kind, start_address, end_address, alignment) ==
    /\ secOut' = [op |-> "with_functions",
                  result |-> Section_with_functions(name, kind, start_address, end_address,
                                                    alignment, SomeFunctions)]
    /\ UNCHANGED <<sections, tableVars, textVars, loadVars, symbolVars>>

SectionInherit(i, start_address, end_address) ==
    /\ secOut' = [op |-> "inherit",
                  result |-> Section_inherit(sections.sections[i], start_address, end_address)]
    /\ UNCHANGED <<sections, tableVars, textVars, loadVars, symbolVars>>

\* The parse paths give Result<Option<Section>>: result.v is the Option.
SectionParse(line) ==
    /\ secOut' = [op |-> "parse", result |-> Section_parse(line, Ctx1)]
    /\ UNCHANGED <<sections, tableVars, textVars, loadVars, symbolVars>>

SectionParseInherit(line) ==
    /\ secOut' = [op |-> "parse_inherit", args |-> line, before |-> sections,
                  result |-> Section_parse_inherit(line, Ctx1, sections)]
    /\ UNCHANGED <<sections, tableVars, textVars, loadVars, symbolVars>>

SectionNext ==
    \/ \E h \in HeaderSections : SectionsAdd(h)
    \/ \E nk \in SectionNameKinds, a \in SectionAddrs, e \in SectionAddrs,
          al \in SectionAligns : SectionNew(nk[1], nk[2], a, e, al)
    \/ \E nk \in SectionNameKinds, a \in SectionAddrs, e \in SectionAddrs,
          al \in SectionAligns : SectionWithFunctions(nk[1], nk[2], a, e, al)
    \/ \E i \in 1..Len(sections.sections), a \in SectionAddrs, e \in SectionAddrs :
          SectionInherit(i, a, e)
    \/ \E l \in SectionLines : SectionParse(l)
    \/ \E l \in SectionLines : SectionParseInherit(l)

(***************************************************************************)
(* The Sections collection: adds and queries over sections that abut,      *)
(* overlap, are empty, or lie above 2^16.                                  *)
(***************************************************************************)
T_dot_data == <<".","d","a","t","a">>

StoredNameKinds == {<<T_text, "Code">>, <<T_dot_bss, "Bss">>, <<T_dot_data, "Data">>}

StoredAddrs == {U32(0, 0), U32(0, 4), U32(1, 0)}

StoredSections ==
    {Section_new(nk[1], nk[2], r[1], r[2], U32(0, 4)).v :
        nk \in StoredNameKinds,
        r \in {x \in StoredAddrs \X StoredAddrs : U32Le(x[1], x[2])}}

QueryAddrs == StoredAddrs \cup {U32(0, 2), U32(1, 4)}

QueryNames == {nk[1] : nk \in StoredNameKinds}

SectionsGet(index) ==
    /\ secOut' = [op |-> "get", args |-> index, before |-> sections,
                  result |-> Sections_get(sections, index)]
    /\ UNCHANGED <<sections, tableVars, textVars, loadVars, symbolVars>>

\* The Option by_name returns is kept under result.v.
SectionsByName(name) ==
    /\ secOut' = [op |-> "by_name", args |-> name, before |-> sections,
                  result |-> Ok(Sections_by_name(sections, name))]
    /\ UNCHANGED <<sections, tableVars, textVars, loadVars, symbolVars>>

SectionsGetByContainedAddress(address) ==
    /\ secOut' = [op |-> "get_by_contained_address", args |-> address, before |-> sections,
                  result |-> Ok(Sections_get_by_contained_address(sections, address))]
    /\ UNCHANGED <<sections, tableVars, textVars, loadVars, symbolVars>>

SectionsSortedByAddress ==
    /\ \E sorted \in Sections_sorted_by_address(sections) :
           secOut' = [op |-> "sorted_by_address", args |-> <<>>, before |-> sections,
                      result |-> Ok(sorted)]
    /\ UNCHANGED <<sections, tableVars, textVars, loadVars, symbolVars>>

CollectionNext ==
    \/ \E s \in StoredSections : SectionsAdd(s)
    \/ \E index \in 0..MaxSections : SectionsGet(index)
    \/ \E name \in QueryNames : SectionsByName(name)
    \/ \E address \in QueryAddrs : SectionsGetByContainedAddress(address)
    \/ SectionsSortedByAddress

(***************************************************************************)
(* The bytes of a section: code and iter_words over a few sections,        *)
(* buffers, base addresses and ranges.                                     *)
(***************************************************************************)
\* 0x1000 .. 0x100A is the section of the documented example.
ByteSections ==
    {Section_new(T_text, "Code", U32(0, 4096), U32(0, 4106), U32(0, 4)).v,
     Section_new(T_text, "Code", U32(0, 0), U32(0, 8), U32(0, 4)).v,
     Section_new(T_dot_bss, "Bss", U32(0, 4096), U32(0, 4106), U32(0, 4)).v,
     Section_new(T_dot_data, "Data", U32(0, 4100), U32(0, 4100), U32(0, 4)).v,
     Section_new(T_dot_data, "Data", U32(0, 4100), U32(0, 4106), U32(0, 2)).v,
     Section_new(T_dot_data, "Data", U32(B16 - 1, B16 - 8), U32(B16 - 1, B16 - 4),
                 U32(0, 4)).v}

\* A buffer of n bytes, each byte telling its place.
BytesOf(n) == [i \in 1..n |-> 16 * i + 1]

MaxBytes == 10

Buffers == {BytesOf(n) : n \in {0, 4, 8, MaxBytes}}

BaseAddrs == {U32(0, 0), U32(0, 4096), U32(0, 4100), U32(B16 - 1, B16 - 16)}

RangeStarts == {U32(0, 0), U32(0, 4092), U32(0, 4096), U32(0, 4097), U32(B16 - 1, B16 - 3)}

RangeEnds == {U32(0, 6), U32(0, 4096), U32(0, 4104), U32(0, 4106), U32(0, 4112)}

WordRanges == {None} \cup {Some([start |-> a, end |-> e]) : a \in RangeStarts, e \in RangeEnds}

SectionCode(section, code, base_address) ==
    /\ secOut' = [op |-> "code", args |-> <<section, code, base_address>>,
                  result |-> Section_code(section, code, base_address)]
    /\ UNCHANGED <<sections, tableVars, textVars, loadVars, symbolVars>>

\* The build is either one with overflow checks or one without.
SectionIterWords(section, code, range) ==
    /\ \E overflow_checks \in BOOLEAN :
           secOut' = [op |-> "iter_words", args |-> <<section, code, range>>,
                      result |-> Section_iter_words(section, code, range, overflow_checks)]
    /\ UNCHANGED <<sections, tableVars, textVars, loadVars, symbolVars>>

BytesNext ==
    \/ \E section \in ByteSections, code \in Buffers, base \in BaseAddrs :
          SectionCode(section, code, base)
    \/ \E section \in ByteSections, code \in Buffers, range \in WordRanges :
          SectionIterWords(section, code, range)

(***************************************************************************)
(* The symbol map: adds and queries over symbols that share an address or  *)
(* a name.                                                                 *)
(***************************************************************************)
\* 0x02000000, whose label name is T_name_label, and 0x0000abcd.
SymAddrs == {U32(512, 0), U32(0, 43981)}

StoredSymbols ==
    {Symbol_new_label(K_main, U32(512, 0)),
     Symbol_new_pool_constant(K_main, U32(0, 43981)),
     Symbol_new_jump_table(T_name_label, U32(512, 0), U32(0, 8), TRUE),
     Symbol_new_data(T_name_label, U32(0, 43981), SymData("Byte", U32(0, 3))),
     Symbol_new_data(K_main, U32(512, 0), SymData("Word", U32(0, 1))),
     Symbol_new_label(T_name_label, U32(512, 0))}

\* The addresses and names asked for: those in use and one that is not.
AskedAddrs == SymAddrs \cup {U32(0, 256)}

AskedNames == {K_main, T_name_label, K_data}

MaxSymbols == 2

SymbolInit ==
    /\ symbols = SymbolMap_new
    /\ symCall = NoCall

\* The adds return Ok(()).
SymAdd(symbol) ==
    /\ Len(symbols.symbols) < MaxSymbols
    /\ symbols' = SymbolMap_add(symbols, symbol)
    /\ symCall' = [op |-> "add", args |-> symbol, before |-> symbols, result |-> Ok(<<>>)]
    /\ UNCHANGED <<tableVars, textVars, loadVars, sectionVars>>

SymAddIfNewAddress(symbol) ==
    /\ Len(symbols.symbols) < MaxSymbols \/ symbol.addr \in DOMAIN symbols.symbols_by_address
    /\ symbols' = SymbolMap_add_if_new_address(symbols, symbol)
    /\ symCall' = [op |-> "add_if_new_address", args |-> symbol, before |-> symbols,
                   result |-> Ok(<<>>)]
    /\ UNCHANGED <<tableVars, textVars, loadVars, sectionVars>>

SymAddLabel(addr) ==
    /\ Len(symbols.symbols) < MaxSymbols \/ addr \in DOMAIN symbols.symbols_by_address
    /\ symbols' = SymbolMap_add_label(symbols, addr)
    /\ symCall' = [op |-> "add_label", args |-> addr, before |-> symbols, result |-> Ok(<<>>)]
    /\ UNCHANGED <<tableVars, textVars, loadVars, sectionVars>>

SymAddPoolConstant(addr) ==
    /\ Len(symbols.symbols) < MaxSymbols \/ addr \in DOMAIN symbols.symbols_by_address
    /\ symbols' = SymbolMap_add_pool_constant(symbols, addr)
    /\ symCall' = [op |-> "add_pool_constant", args |-> addr, before |-> symbols,
                   result |-> Ok(<<>>)]
    /\ UNCHANGED <<tableVars, textVars, loadVars, sectionVars>>

\* A query: the map stays as it is and the result is recorded.
SymQuery(op, args, result) ==
    /\ symCall' = [op |-> op, args |-> args, before |-> symbols, result |-> result]
    /\ UNCHANGED <<symbols, tableVars, textVars, loadVars, sectionVars>>

\* for_address and for_name return an Option, kept under result.v.
ForAddress(address) ==
    SymQuery("for_address", address, Ok(SymbolMap_for_address(symbols, address)))

ByAddress(address) == SymQuery("by_address", address, SymbolMap_by_address(symbols, address))

ForName(name) == SymQuery("for_name", name, Ok(SymbolMap_for_name(symbols, name)))

ByName(name) == SymQuery("by_name", name, SymbolMap_by_name(symbols, name))

GetLabel(addr) == SymQuery("get_label", addr, SymbolMap_get_label(symbols, addr))

GetPoolConstant(addr) ==
    SymQuery("get_pool_constant", addr, SymbolMap_get_pool_constant(symbols, addr))

GetJumpTable(addr) == SymQuery("get_jump_table", addr, SymbolMap_get_jump_table(symbols, addr))

GetData(addr) == SymQuery("get_data", addr, SymbolMap_get_data(symbols, addr))

LookupSymbolName(source, destination) ==
    SymQuery("lookup_symbol_name", <<source, destination>>,
             SymbolMap_lookup_symbol_name(symbols, source, destination))

SymbolsNext ==
    \/ \E symbol \in StoredSymbols : SymAdd(symbol)
    \/ \E address \in AskedAddrs : ForAddress(address)
    \/ \E address \in AskedAddrs : ByAddress(address)
    \/ \E name \in AskedNames : ForName(name)
    \/ \E name \in AskedNames : ByName(name)
    \/ \E addr \in AskedAddrs : GetLabel(addr)
    \/ \E addr \in AskedAddrs : GetPoolConstant(addr)
    \/ \E addr \in AskedAddrs : GetJumpTable(addr)
    \/ \E addr \in AskedAddrs : GetData(addr)
    \/ \E source \in SymAddrs, destination \in AskedAddrs :
          LookupSymbolName(source, destination)

\* The adds that look at the address index first.
NewAddressNext ==
    \/ \E symbol \in StoredSymbols : SymAddIfNewAddress(symbol)
    \/ \E addr \in AskedAddrs : SymAddLabel(addr)
    \/ \E addr \in AskedAddrs : SymAddPoolConstant(addr)

(***************************************************************************)
(* The Bss sections of a collection: sections of two Bss names and of one  *)
(* code name are added, and bss_size and bss_range are asked.              *)
(***************************************************************************)
T_dot_sbss == <<".","s","b","s","s">>

BssNameKinds == {<<T_dot_bss, "Bss">>, <<T_dot_sbss, "Bss">>, <<T_text, "Code">>}

BssAddrs == {U32(0, 0), U32(0, 4), U32(0, 8), U32(1, 0)}

BssSections ==
    {Section_new(nk[1], nk[2], r[1], r[2], U32(0, 4)).v :
        nk \in BssNameKinds,
        r \in {x \in BssAddrs \X BssAddrs : U32Lt(x[1], x[2])}}

SectionsBssSize ==
    /\ secOut' = [op |-> "bss_size", args |-> <<>>, before |-> sections,
                  result |-> Ok(Sections_bss_size(sections))]
    /\ UNCHANGED <<sections, tableVars, textVars, loadVars, symbolVars>>

\* The Option bss_range returns is kept under result.v.
SectionsBssRange ==
    /\ secOut' = [op |-> "bss_range", args |-> <<>>, before |-> sections,
                  result |-> Ok(Sections_bss_range(sections))]
    /\ UNCHANGED <<sections, tableVars, textVars, loadVars, symbolVars>>

BssNext ==
    \/ \E s \in BssSections : SectionsAdd(s)
    \/ SectionsBssSize
    \/ SectionsBssRange

(***************************************************************************)
(* The registry: a map built by from_symbols takes every kind of add, and  *)
(* jump tables are asked back.                                             *)
(***************************************************************************)
IndexedSymbols ==
    {Symbol_new_label(K_main, U32(512, 0)),
     Symbol_new_data(T_name_label, U32(0, 43981), SymData("Byte", U32(0, 3))),
     Symbol_new_pool_constant(K_main, U32(0, 43981))}

\* The vectors from_symbols is given.
StartSymbols ==
    {<<>>}
    \cup {<<a>> : a \in IndexedSymbols}
    \cup {<<Symbol_new_label(K_main, U32(512, 0)), Symbol_new_label(K_main, U32(512, 0))>>}

JumpTables ==
    {[address |-> U32(512, 0), size |-> U32(0, 8), code |-> TRUE],
     [address |-> U32(0, 43981), size |-> U32(1, 0), code |-> FALSE]}

Functions == {[name |-> K_main, thumb |-> TRUE, start_address |-> U32(512, 0)]}

DataNames == {None, Some(K_data)}

IndexInit ==
    /\ symbols \in {SymbolMap_from_symbols(list) : list \in StartSymbols}
    /\ symCall = NoCall

SymAddFunction(function) ==
    /\ Len(symbols.symbols) < MaxSymbols
    /\ symbols' = SymbolMap_add_function(symbols, function)
    /\ symCall' = [op |-> "add_function", args |-> function, before |-> symbols,
                   result |-> Ok(<<>>)]
    /\ UNCHANGED <<tableVars, textVars, loadVars, sectionVars>>

SymAddJumpTable(table) ==
    /\ Len(symbols.symbols) < MaxSymbols
    /\ symbols' = SymbolMap_add_jump_table(symbols, table)
    /\ symCall' = [op |-> "add_jump_table", args |-> table, before |-> symbols,
                   result |-> Ok(<<>>)]
    /\ UNCHANGED <<tableVars, textVars, loadVars, sectionVars>>

SymAddData(name, addr, data) ==
    /\ Len(symbols.symbols) < MaxSymbols
    /\ symbols' = SymbolMap_add_data(symbols, name, addr, data)
    /\ symCall' = [op |-> "add_data", args |-> <<name, addr, data>>, before |-> symbols,
                   result |-> Ok(<<>>)]
    /\ UNCHANGED <<tableVars, textVars, loadVars, sectionVars>>

IndexNext ==
    \/ \E symbol \in IndexedSymbols : SymAdd(symbol)
    \/ \E symbol \in IndexedSymbols : SymAddIfNewAddress(symbol)
    \/ \E addr \in SymAddrs : SymAddLabel(addr)
    \/ \E addr \in SymAddrs : SymAddPoolConstant(addr)
    \/ \E function \in Functions : SymAddFunction(function)
    \/ \E table \in JumpTables : SymAddJumpTable(table)
    \/ \E name \in DataNames, addr \in SymAddrs :
          SymAddData(name, addr, SymData("Word", U32(0, 2)))
    \/ \E addr \in AskedAddrs : GetJumpTable(addr)

(***************************************************************************)
(* Writing a symbol map: symbols of every kind are added and the map is    *)
(* written out.                                                            *)
(***************************************************************************)
T_name_low == <<"_","0","0","0","0","a","b","c","d">>

WrittenSymbols ==
    {Symbol(K_main, SymbolKind("Function", "Arm"), U32(512, 0)),
     Symbol_new_data(K_data, U32(512, 0), SymData("Word", U32(0, 1))),
     Symbol(T_name_low, SymbolKind("Bss", <<>>), U32(0, 43981)),
     Symbol_new_label(T_name_label, U32(512, 0)),
     Symbol_new_pool_constant(T_name_low, U32(0, 43981)),
     Symbol_new_jump_table(T_name_label, U32(512, 0), U32(0, 8), TRUE)}

MaxWritten == 4

WriteAdd(symbol) ==
    /\ Len(symbols.symbols) < MaxWritten
    /\ symbols' = SymbolMap_add(symbols, symbol)
    /\ symCall' = [op |-> "add", args |-> symbol, before |-> symbols, result |-> Ok(<<>>)]
    /\ UNCHANGED <<tableVars, textVars, loadVars, sectionVars>>

\* to_file returns Ok(()); the lines of the file are kept under result.v.
ToFile == SymQuery("to_file", <<>>, Ok(SymbolMap_to_file(symbols)))

WriteNext ==
    \/ \E symbol \in WrittenSymbols : WriteAdd(symbol)
    \/ ToFile

(***************************************************************************)
(* Specifications.  The components share no state, so each is checked on   *)
(* its own with the others at rest; Spec puts them side by side.           *)
(***************************************************************************)
Init == TableInit /\ TextInit /\ LoadInit /\ SectionInit /\ SymbolInit

Next ==
    \/ TableNext \/ TextNext \/ LoadNext \/ SectionNext \/ CollectionNext \/ BytesNext
    \/ SymbolsNext \/ NewAddressNext \/ WriteNext \/ BssNext \/ IndexNext

Spec == Init /\ [][Next]_vars

\* Each component on its own, the others at rest.
InitTable == TableInit /\ TextIdle /\ LoadIdle /\ SectionInit /\ SymbolInit

SpecTable == InitTable /\ [][TableNext]_vars

InitText == TableInit /\ TextInit /\ LoadIdle /\ SectionInit /\ SymbolInit

SpecText == InitText /\ [][TextNext]_vars

InitLoad == TableInit /\ TextIdle /\ LoadInit /\ SectionInit /\ SymbolInit

SpecLoad == InitLoad /\ [][LoadNext]_vars

InitSection == TableInit /\ TextIdle /\ LoadIdle /\ SectionInit /\ SymbolInit

SpecSection == InitSection /\ [][SectionNext]_vars

SpecCollection == InitSection /\ [][CollectionNext]_vars

SpecBytes == InitSection /\ [][BytesNext]_vars

SpecBss == InitSection /\ [][BssNext]_vars

InitSymbols == TableInit /\ TextIdle /\ LoadIdle /\ SectionInit /\ SymbolInit

SpecSymbols == InitSymbols /\ [][SymbolsNext]_vars

SpecNewAddress == InitSymbols /\ [][NewAddressNext]_vars

SpecWrite == InitSymbols /\ [][WriteNext]_vars

InitIndex == TableInit /\ TextIdle /\ LoadIdle /\ SectionInit /\ IndexInit

SpecIndex == InitIndex /\ [][IndexNext]_vars

(***************************************************************************)
(* Properties of the relocation table (SpecTable).                         *)
(***************************************************************************)

\* The record that was stored at the address of the last add, if any.
StoredBefore == relCall.before[relCall.args.from]

AddOnOccupied == relCall.op = "add" /\ relCall.args.from \in DOMAIN relCall.before

\* Equal from, to, addend, kind and module; the source annotation is free.
SameContent(a, b) ==
    /\ a.from = b.from /\ a.to = b.to /\ a.addend = b.addend
    /\ a.kind = b.kind /\ a.module = b.module

\* C1: an add whose from, to, addend, kind and module equal the stored
\* record's, whatever its source annotation, succeeds and leaves the table
\* with exactly the entries it had.
C1_AddIdempotentOnContent ==
    (AddOnOccupied /\ SameContent(StoredBefore, relCall.args))
        => (relCall.result.ok /\ relocations = relCall.before)

\* C2: an add that differs from the stored record in to, addend, kind or
\* module returns RelocationCollision with the new and the stored (to, module)
\* and leaves every entry of the table as it was.
C2_CollisionRejected ==
    (AddOnOccupied /\ ~SameContent(StoredBefore, relCall.args))
        => /\ ~relCall.result.ok
           /\ relCall.result.err = "RelocationCollision"
           /\ relCall.result.curr_to = relCall.args.to
           /\ relCall.result.curr_module = relCall.args.module
           /\ relCall.result.prev_to = StoredBefore.to
           /\ relCall.result.prev_module = StoredBefore.module
           /\ relocations = relCall.before

\* A colliding add on a table of two entries, answered with the collision.
C2_Witness ==
    /\ AddOnOccupied
    /\ ~SameContent(StoredBefore, relCall.args)
    /\ Cardinality(DOMAIN relCall.before) = 2
    /\ ~relCall.result.ok
    /\ relCall.result.prev_to # relCall.result.curr_to

\* The kind that the instruction-mode pair of caller and callee selects.
CallKind(from_thumb, to_thumb) ==
    CASE from_thumb /\ to_thumb   -> "ThumbCall"
      [] ~from_thumb /\ ~to_thumb -> "ArmCall"
      [] ~from_thumb /\ to_thumb  -> "ArmCallThumb"
      [] from_thumb /\ ~to_thumb  -> "ThumbCallArm"

\* The record add_call is to hand to add.
CallRecord(args) ==
    [from |-> args.from, to |-> args.to, addend |-> 0,
     kind |-> CallKind(args.from_thumb, args.to_thumb), module |-> args.module,
     source |-> None]

\* C8: add_call inserts the record of the given from, to and module with
\* addend 0 and the kind of the (from_thumb, to_thumb) pair, under the
\* collision rule of add.
C8_AddCallKind ==
    relCall.op = "add_call"
        => /\ [table |-> relocations, result |-> relCall.result]
                  = Relocations_add(relCall.before, CallRecord(relCall.args))
           /\ relCall.args.from \notin DOMAIN relCall.before
                  => /\ relCall.result.ok
                     /\ relocations[relCall.args.from] = CallRecord(relCall.args)
                     /\ DOMAIN relocations = DOMAIN relCall.before \cup {relCall.args.from}

\* An add_call of a Thumb caller to an ARM callee stored at a free address.
C8_Witness ==
    /\ relCall.op = "add_call"
    /\ relCall.args.from_thumb /\ ~relCall.args.to_thumb
    /\ relCall.args.from \notin DOMAIN relCall.before
    /\ relocations[relCall.args.from].kind = "ThumbCallArm"

(***************************************************************************)
(* Properties of the text forms (SpecText).                                *)
(***************************************************************************)

RelocationReparsed == txStage = "reparsed" /\ txIn.what = "relocation"

\* C3: the Display form of a parsed relocation parses again to a record of
\* the same from, to, addend, kind and module, for every accepted line.
C3_RelocationRoundTrip ==
    RelocationReparsed
        => /\ txReparsed.ok
           /\ txReparsed.v # None
           /\ SameContent(txReparsed.v[1], txParsed.v[1])

SymbolReparsed == txStage = "reparsed" /\ txIn.what = "symbol"

\* C4: the Display form of a parsed symbol parses again to a symbol of the
\* same name, kind (mode, data element kind and count) and addr.
C4_SymbolRoundTrip ==
    SymbolReparsed
        => /\ txReparsed.ok
           /\ txReparsed.v # None
           /\ txReparsed.v[1].name = txParsed.v[1].name
           /\ txReparsed.v[1].kind = txParsed.v[1].kind
           /\ txReparsed.v[1].addr = txParsed.v[1].addr

\* A data symbol of three bytes that came back from its written form.
C4_Witness ==
    /\ SymbolReparsed
    /\ txParsed.v[1].kind.tag = "Data"
    /\ txParsed.v[1].kind.arg.kind = "Byte"
    /\ txParsed.v[1].kind.arg.count = U32(0, 3)
    /\ txReparsed.ok
    /\ txReparsed.v = txParsed.v

\* The option text of a module token: what stands between the parentheses.
OptionText(shape) ==
    IF shape.parens = "none" THEN <<>> ELSE Join(ItemTexts(shape.items), <<",">>)

\* The ids of a shape whose items are all u16 ids.
RECURSIVE ItemIds(_)
ItemIds(items) ==
    IF items = <<>> THEN <<>> ELSE <<Head(items).value[1]>> \o ItemIds(Tail(items))

AllIds(items) == \A i \in 1..Len(items) : items[i].value # None

NoOptionTag(base) ==
    CASE base = K_none -> "None"
      [] base = K_main -> "Main"
      [] base = K_itcm -> "Itcm"
      [] base = K_dtcm -> "Dtcm"

\* What the grammar gives for a module token of the given shape.
ModuleGrammar(shape, result) ==
    CASE shape.base \in {K_none, K_main, K_itcm, K_dtcm} ->
            IF OptionText(shape) = <<>>
            THEN result.ok /\ result.v = Module(NoOptionTag(shape.base), <<>>)
            ELSE ~result.ok /\ result.err = "UnexpectedOptions"
      [] shape.base = K_overlay ->
            IF Len(shape.items) = 1 /\ AllIds(shape.items)
            THEN result.ok /\ result.v = Module("Overlay", ItemIds(shape.items))
            ELSE ~result.ok
      [] shape.base = K_overlays ->
            IF Len(shape.items) >= 2 /\ AllIds(shape.items)
            THEN result.ok /\ result.v = Module("Overlays", ItemIds(shape.items))
            ELSE ~result.ok
      [] OTHER -> ~result.ok /\ result.err = "UnknownModule"

ModuleParsed == txStage = "parsed" /\ txIn.what = "module"

\* C7: none, main, itcm and dtcm parse without options and fault with
\* UnexpectedOptions on any option text; overlay takes exactly one u16 id;
\* overlays takes two or more u16 ids and keeps their order; any other token
\* faults as an unknown module.
C7_ModuleGrammar == ModuleParsed => ModuleGrammar(txIn.shape, txParsed)

\* overlays with two ids parsed to the two-id variant, 2 before 1.
C7_Witness ==
    /\ ModuleParsed
    /\ txIn.shape.base = K_overlays
    /\ txIn.shape.parens = "closed"
    /\ txParsed.ok
    /\ txParsed.v = Module("Overlays", <<2, 1>>)

\* The bias of a relocation kind.
KindBias(kind) ==
    CASE kind = "ArmCall"      -> -8
      [] kind = "ThumbCall"    -> -4
      [] kind = "ArmCallThumb" -> -8
      [] kind = "ThumbCallArm" -> -4
      [] kind = "ArmBranch"    -> -8
      [] kind = "Load"         -> 0

AddendTaken == txStage = "addend" /\ txIn.what = "relocation"

\* C9: the effective addend less the bias of the kind is the stored addend,
\* as 64-bit values, and addend_value is the stored addend.
C9_EffectiveAddend ==
    AddendTaken
        => /\ I64Sub(txAddend[1].addend, I64OfI32(KindBias(txParsed.v[1].kind)))
                  = I64OfI32(txParsed.v[1].addend)
           /\ txAddend[1].addend_value = txParsed.v[1].addend

\* The least i32 under a bias of -8: the effective addend is below i32.
C9_Witness ==
    /\ AddendTaken
    /\ txParsed.v[1].addend = I32Min
    /\ txParsed.v[1].kind = "ArmCall"
    /\ txAddend[1].addend = <<-(2^15) - 1, B16 - 8>>

(***************************************************************************)
(* Properties of file loading (SpecLoad).                                  *)
(***************************************************************************)

Loaded == ~NotCalled(ldOut)

\* A blank line, or a line that holds nothing but a // comment.
Ignorable(line) == SplitWhitespace(StripComment(line)) = <<>>

NotIgnorable(line) == ~Ignorable(line)

\* The load of the given lines by the loader of the file's kind.
LoadOf(what, lines) ==
    IF what = "relocations" THEN Relocations_from_file(lines)
    ELSE SymbolMap_from_file(lines)

\* The parse of one line as the row-th line of a file of the given kind.
LineParse(what, line, row) ==
    IF what = "relocations" THEN Relocation_parse(StripComment(line), <<row>>)
    ELSE Symbol_parse(line, <<row>>)

\* A line that parses to a record.
RecordLine(what, line) ==
    LET r == LineParse(what, line, 1) IN r.ok /\ r.v # None

\* C5: a file of record lines interleaved with blank and comment-only lines
\* loads without fault, to the contents of the file without those lines.
C5_BlankAndCommentLinesSkipped ==
    (/\ Loaded
     /\ \A i \in 1..Len(ldIn.lines) :
            Ignorable(ldIn.lines[i]) \/ RecordLine(ldIn.what, ldIn.lines[i]))
        => /\ ldOut.ok
           /\ ldOut = LoadOf(ldIn.what, SelectSeq(ldIn.lines, NotIgnorable))

LineFails(i) == ~LineParse(ldIn.what, ldIn.lines[i], i).ok

\* C6: when a line fails to parse, the load returns an error and no table,
\* and the row of the error is the 1-based number of the first such line.
C6_FailFastWithRow ==
    (Loaded /\ \E i \in 1..Len(ldIn.lines) : LineFails(i))
        => LET k == CHOOSE i \in 1..Len(ldIn.lines) :
                        LineFails(i) /\ \A j \in 1..(i - 1) : ~LineFails(j)
           IN  ~ldOut.ok /\ ldOut.ctx = <<k>>

(***************************************************************************)
(* Properties of sections (SpecSection).                                   *)
(***************************************************************************)

\* start_address mod alignment = 0, for an alignment that is a power of two:
\* an alignment below 2^16 divides 2^16, so only the low limb matters; a
\* larger one is a multiple of 2^16.
StartAligned(section) ==
    IF section.alignment[1] = 0
    THEN section.start_address[2] % section.alignment[2] = 0
    ELSE section.start_address[2] = 0
         /\ section.start_address[1] % section.alignment[1] = 0

SectionValid(section) ==
    /\ U32Le(section.start_address, section.end_address)
    /\ U32IsPowerOfTwo(section.alignment)
    /\ StartAligned(section)

\* The sections a successful constructor call returned: the parse paths
\* return an Option.
Constructed ==
    IF ~secOut.result.ok THEN {}
    ELSE IF secOut.op \in {"parse", "parse_inherit"}
    THEN {secOut.result.v[i] : i \in 1..Len(secOut.result.v)}
    ELSE IF secOut.op \in {"new", "with_functions", "inherit"}
    THEN {secOut.result.v}
    ELSE {}

\* C10: every section a constructor returns has end_address >= start_address,
\* a power-of-two alignment and start_address mod alignment = 0.
C10_SectionInvariant == \A section \in Constructed : SectionValid(section)

\* The last call was parse_inherit, on a line that is not blank.
InheritParsed == secOut.op = "parse_inherit" /\ SplitWhitespace(secOut.args) # <<>>

LineName(line) == Head(SplitWhitespace(line))

\* The key:value pairs of a line, and the keys among them.
LineAttrs(line) == iter_attributes(Tail(SplitWhitespace(line)))

LineKeys(line) == {LineAttrs(line)[i][1] : i \in 1..Len(LineAttrs(line))}

\* The value the line gives for key: that of its last occurrence.
LineValue(line, key) ==
    LET attrs == LineAttrs(line)
        i     == CHOOSE i \in 1..Len(attrs) :
                     attrs[i][1] = key /\ \A j \in (i + 1)..Len(attrs) : attrs[j][1] # key
    IN  parse_u32(attrs[i][2])

FailedWith(kind) == ~secOut.result.ok /\ secOut.result.err = kind

\* The section an inherit line is to give: the start and end of the line,
\* the rest from the header section of the same name, no functions.
Inherited(line, header) ==
    LET other == Sections_by_name(header, LineName(line))[1][2]
    IN  SectionOf(other.name, other.kind, LineValue(line, K_start).v,
                  LineValue(line, K_end).v, other.alignment, <<>>)

\* C16, as stated: parse_inherit fails with NotInHeader when the name of the
\* line is not that of a header section, with InheritedAttribute when the
\* line has kind or align, fails when start or end is missing or another key
\* appears, and in every other case returns the section with the start and
\* end of the line and the name, kind and alignment of the header section,
\* without functions; the header collection is unchanged.
C16_InheritLine ==
    InheritParsed =>
      /\ sections = secOut.before
      /\ IF LineName(secOut.args) \notin DOMAIN sections.sections_by_name
         THEN FailedWith("NotInHeader")
         ELSE IF LineKeys(secOut.args) \cap {K_kind, K_align} # {}
         THEN FailedWith("InheritedAttribute")
         ELSE IF ~(LineKeys(secOut.args) \subseteq {K_start, K_end})
                   \/ ~({K_start, K_end} \subseteq LineKeys(secOut.args))
         THEN ~secOut.result.ok
         ELSE secOut.result = Ok(Some(Inherited(secOut.args, sections)))

\* The first attribute of the line that the loop stops at: one whose key is
\* not start or end, or whose value is not a u32; 0 when there is none.
FirstRefused(line) ==
    LET attrs == LineAttrs(line)
        Refused(i) == attrs[i][1] \notin {K_start, K_end} \/ ~parse_u32(attrs[i][2]).ok
    IN  IF \E i \in 1..Len(attrs) : Refused(i)
        THEN CHOOSE i \in 1..Len(attrs) : Refused(i) /\ \A j \in 1..(i - 1) : ~Refused(j)
        ELSE 0

\* C16, amended: a blank line gives nothing.  Otherwise parse_inherit fails
\* with NotInHeader when the name of the line is not that of a header
\* section; else it fails at the first attribute in line order that is not a
\* start or end with a u32 value, with InheritedAttribute when that attribute
\* is kind or align; else it fails when start or end is missing, or when end
\* is below start; in every other case it returns the section with the start
\* and end of the line and the name, kind and alignment of the header
\* section, without functions.  The header collection is unchanged.
C16_InheritLineInOrder ==
    secOut.op = "parse_inherit" =>
      /\ sections = secOut.before
      /\ IF SplitWhitespace(secOut.args) = <<>> THEN secOut.result = Ok(None)
         ELSE IF LineName(secOut.args) \notin DOMAIN sections.sections_by_name
         THEN FailedWith("NotInHeader")
         ELSE IF FirstRefused(secOut.args) # 0
         THEN IF LineAttrs(secOut.args)[FirstRefused(secOut.args)][1] \in {K_kind, K_align}
              THEN FailedWith("InheritedAttribute")
              ELSE ~secOut.result.ok
         ELSE IF ~({K_start, K_end} \subseteq LineKeys(secOut.args))
         THEN FailedWith("MissingAttribute")
         ELSE IF U32Lt(LineValue(secOut.args, K_end).v, LineValue(secOut.args, K_start).v)
         THEN ~secOut.result.ok
         ELSE secOut.result = Ok(Some(Inherited(secOut.args, sections)))

\* A line with align after its start and end was refused for a header that
\* holds two sections.
C16_Witness ==
    /\ InheritParsed
    /\ FailedWith("InheritedAttribute")
    /\ K_align \in LineKeys(secOut.args)
    /\ Len(sections.sections) = 2

(***************************************************************************)
(* Properties of the Sections collection (SpecCollection).                 *)
(***************************************************************************)

\* The last call was Sections::add.
Added == secOut.op = "add"

AddFailed(kind) == Added /\ ~secOut.result.ok /\ secOut.result.err = kind

\* The address ranges of a and b intersect, as the claim words it.
RangesOverlap(a, b) ==
    /\ U32Lt(a.start_address, b.end_address)
    /\ U32Lt(b.start_address, a.end_address)

SomeStoredOverlaps(self, section) ==
    \E i \in 1..Len(self.sections) : RangesOverlap(section, self.sections[i])

\* No two distinct stored sections have intersecting address ranges.
Disjoint(self) ==
    \A i, j \in 1..Len(self.sections) :
        i # j => ~RangesOverlap(self.sections[i], self.sections[j])

\* C11, as stated: no two distinct stored sections have intersecting address
\* ranges, and an add of a section that overlaps a stored one is answered
\* Overlapping and leaves the section list and the name index as they were.
C11_NoOverlap ==
    /\ Disjoint(sections)
    /\ Added /\ SomeStoredOverlaps(secOut.before, secOut.args)
          => AddFailed("Overlapping") /\ sections = secOut.before

\* C11, amended: no two distinct stored sections have intersecting address
\* ranges; an add of a section that overlaps a stored one fails and leaves
\* the section list and the name index as they were, answered DuplicateName
\* when the name of the section is in use and Overlapping when it is not.
C11_NoOverlapNameFirst ==
    /\ Disjoint(sections)
    /\ Added /\ SomeStoredOverlaps(secOut.before, secOut.args)
          => /\ sections = secOut.before
             /\ IF secOut.args.name \in DOMAIN secOut.before.sections_by_name
                THEN AddFailed("DuplicateName")
                ELSE AddFailed("Overlapping")
    /\ AddFailed("Overlapping") => SomeStoredOverlaps(secOut.before, secOut.args)

\* An overlapping add was refused on a collection that holds two sections.
C11_Witness ==
    /\ AddFailed("Overlapping")
    /\ Len(sections.sections) = 2
    /\ sections = secOut.before

\* The stored sections, as a set.
Stored(self) == {self.sections[i] : i \in 1..Len(self.sections)}

\* get and by_name find every stored section at its position.
Indexed(self) ==
    \A i \in 1..Len(self.sections) :
        /\ Sections_get(self, i - 1) = Ok(self.sections[i])
        /\ Sections_by_name(self, self.sections[i].name) = Some(<<i - 1, self.sections[i]>>)

Ascending(list) ==
    \A i \in 1..(Len(list) - 1) : U32Le(list[i].start_address, list[i + 1].start_address)

\* C12: no two stored sections share a name; an add of a stored name is
\* answered DuplicateName and changes nothing; a successful add returns the
\* number of sections stored before it and keeps every earlier section in
\* place, so that get and by_name find each stored section at the index its
\* add returned; sorted_by_address returns the stored sections in ascending
\* order of start address and leaves the stored order alone.
C12_NamesAndIndices ==
    /\ \A i, j \in 1..Len(sections.sections) :
           i # j => sections.sections[i].name # sections.sections[j].name
    /\ Indexed(sections)
    /\ Added /\ secOut.args.name \in DOMAIN secOut.before.sections_by_name
          => AddFailed("DuplicateName") /\ sections = secOut.before
    /\ Added /\ secOut.result.ok
          => /\ secOut.result.v = Len(secOut.before.sections)
             /\ IsPrefix(secOut.before.sections, sections.sections)
             /\ Sections_get(sections, secOut.result.v) = Ok(secOut.args)
             /\ Sections_by_name(sections, secOut.args.name)
                    = Some(<<secOut.result.v, secOut.args>>)
    /\ secOut.op = "get" /\ secOut.args < Len(sections.sections)
          => secOut.result = Ok(sections.sections[secOut.args + 1])
    /\ secOut.op = "by_name" /\ secOut.result.v # None
          => /\ secOut.result.v[1][2].name = secOut.args
             /\ secOut.result.v[1][2] = sections.sections[secOut.result.v[1][1] + 1]
    /\ secOut.op = "sorted_by_address"
          => /\ Len(secOut.result.v) = Len(sections.sections)
             /\ {secOut.result.v[i] : i \in 1..Len(secOut.result.v)} = Stored(sections)
             /\ Ascending(secOut.result.v)
             /\ sections = secOut.before

\* A second section of a stored name was refused after a later add.
C12_Witness ==
    /\ AddFailed("DuplicateName")
    /\ Len(sections.sections) = 2
    /\ secOut.args.name = sections.sections[1].name
    /\ secOut.args # sections.sections[1]

\* start_address <= address < end_address, as the claim words it.
InRange(section, address) ==
    U32Le(section.start_address, address) /\ U32Lt(address, section.end_address)

\* The last call was get_by_contained_address.
Located == secOut.op = "get_by_contained_address"

\* C13: get_by_contained_address(a) returns a stored section S, with its
\* index, exactly when S.start <= a < S.end, and at most one stored section
\* is such; so for a the end address of a stored section A the result is
\* never A: it is the stored section that contains a if there is one, and
\* nothing otherwise, also when an empty section starts at a.
C13_ContainedAddress ==
    Located =>
      /\ sections = secOut.before
      /\ \A i, j \in 1..Len(sections.sections) :
             InRange(sections.sections[i], secOut.args)
                 /\ InRange(sections.sections[j], secOut.args) => i = j
      /\ \A i \in 1..Len(sections.sections) :
             (secOut.result.v = Some(<<i - 1, sections.sections[i]>>))
                 <=> InRange(sections.sections[i], secOut.args)
      /\ (secOut.result.v = None)
             <=> \A S \in Stored(sections) : ~InRange(S, secOut.args)
      /\ \A A \in Stored(sections) :
             A.end_address = secOut.args
                 => secOut.result.v = None \/ secOut.result.v[1][2] # A

\* The address asked for ends one stored section and is where a stored empty
\* section starts: nothing is returned.
C13_Witness ==
    /\ Located
    /\ secOut.result.v = None
    /\ \E A \in Stored(sections) :
           A.end_address = secOut.args /\ U32Lt(A.start_address, A.end_address)
    /\ \E E \in Stored(sections) :
           E.start_address = secOut.args /\ E.end_address = secOut.args

(***************************************************************************)
(* Properties of the bytes of a section (SpecBytes).                       *)
(***************************************************************************)

\* b - a as an integer for u32 a <= b, or 2^30 when it is more than that.
Distance(a, b) ==
    IF b[1] - a[1] > 2^14 THEN 2^30 ELSE (b[1] - a[1]) * B16 + (b[2] - a[2])

\* The bytes of code at the offsets first .. last - 1, counted from 0.
BytesAt(code, first, last) == [i \in 1..(last - first) |-> code[first + i]]

\* C14: code(bytes, base_address) of a Bss section returns no data and no
\* fault; of another section it fails with StartsBeforeBaseAddress when
\* start_address < base_address, with EndsOutsideModule when end_address -
\* base_address is more than the length of the buffer, and otherwise returns
\* the bytes at the offsets [start - base, end - base) of the buffer, which are
\* size() many.
C14_Code ==
    secOut.op = "code" =>
      LET self == secOut.args[1]
          code == secOut.args[2]
          base == secOut.args[3]
      IN  IF self.kind = "Bss" THEN secOut.result = Ok(None)
          ELSE IF U32Lt(self.start_address, base)
          THEN ~secOut.result.ok /\ secOut.result.err = "StartsBeforeBaseAddress"
          ELSE IF Distance(base, self.end_address) > Len(code)
          THEN ~secOut.result.ok /\ secOut.result.err = "EndsOutsideModule"
          ELSE /\ secOut.result.ok
               /\ secOut.result.v # None
               /\ secOut.result.v[1] = BytesAt(code, Distance(base, self.start_address),
                                               Distance(base, self.end_address))
               /\ U32OfLen(Len(secOut.result.v[1])) = Section_size(self)

\* Some bytes of a buffer were returned for a section that starts above the
\* base address and ends where the buffer ends.
C14_Witness ==
    /\ secOut.op = "code"
    /\ secOut.result.ok
    /\ secOut.result.v # None
    /\ secOut.result.v[1] # <<>>
    /\ U32Lt(secOut.args[3], secOut.args[1].start_address)
    /\ Distance(secOut.args[3], secOut.args[1].end_address) = Len(secOut.args[2])

\* The range iter_words works on: the one given, or the whole section.
RangeOf(self, range) == IF range = None THEN Section_address_range(self) ELSE range[1]

\* The number of addresses w with w mod 4 = 0, r.start <= w and w + 4 <= r.end.
WordCount(r) ==
    LET up   == 3 - ((r.start[2] + 3) % 4)
        down == <<r.end[1], r.end[2] - (r.end[2] % 4)>>
    IN  IF U32AddOverflows(r.start, U32(0, up)) THEN 0
        ELSE IF ~U32Lt(U32WrappingAdd(r.start, U32(0, up)), down) THEN 0
        ELSE Distance(U32WrappingAdd(r.start, U32(0, up)), down) \div 4

\* word is the word at an address the range holds a whole word for, with the
\* little-endian value of the four bytes at address - start_address.
WordOf(self, code, r, word) ==
    /\ word.address[2] % 4 = 0
    /\ U32Le(r.start, word.address)
    /\ ~U32AddOverflows(word.address, U32(0, 4))
    /\ U32Le(U32WrappingAdd(word.address, U32(0, 4)), r.end)
    /\ U32Le(self.start_address, word.address)
    /\ Distance(self.start_address, word.address) + 4 <= Len(code)
    /\ word.value = Word32(BytesAt(code, Distance(self.start_address, word.address),
                                   Distance(self.start_address, word.address) + 4))

\* The words were yielded without a panic, one for every address that the
\* range holds a whole word for, in ascending order.
WordsYielded(self, code, r, result) ==
    /\ result.ok
    /\ Len(result.v) = WordCount(r)
    /\ \A i \in 1..Len(result.v) : WordOf(self, code, r, result.v[i])
    /\ \A i \in 1..(Len(result.v) - 1) : U32Lt(result.v[i].address, result.v[i + 1].address)

\* C15: iter_words(bytes, range), the range defaulting to the whole section,
\* yields in ascending order exactly one word for every address w with
\* w mod 4 = 0, range.start <= w and w + 4 <= range.end, valued with the
\* little-endian u32 of the four bytes at offset w - start_address, and this
\* for every u32 range, without arithmetic overflow or out-of-bounds read.
C15_IterWords ==
    secOut.op = "iter_words" =>
        WordsYielded(secOut.args[1], secOut.args[2],
                     RangeOf(secOut.args[1], secOut.args[3]), secOut.result)

\* For a range start .. end with start <= end inside the section, and a
\* buffer that holds the whole section, the words are yielded as described.
WordsWithinSection ==
    secOut.op = "iter_words"
        /\ U32Le(secOut.args[1].start_address, RangeOf(secOut.args[1], secOut.args[3]).start)
        /\ U32Le(RangeOf(secOut.args[1], secOut.args[3]).start,
                 RangeOf(secOut.args[1], secOut.args[3]).end)
        /\ U32Le(RangeOf(secOut.args[1], secOut.args[3]).end, secOut.args[1].end_address)
        /\ U32OfLen(Len(secOut.args[2])) = Section_size(secOut.args[1])
      => WordsYielded(secOut.args[1], secOut.args[2],
                      RangeOf(secOut.args[1], secOut.args[3]), secOut.result)

\* The section 0x1000 .. 0x100A and its ten bytes gave two words.
TwoWords ==
    /\ secOut.op = "iter_words"
    /\ secOut.args[3] = None
    /\ secOut.result.ok
    /\ Len(secOut.result.v) = 2
    /\ secOut.result.v[1].address = U32(0, 4096)
    /\ secOut.result.v[2] = [address |-> U32(0, 4100),
                             value   |-> U32(113 + 256 * 129, 81 + 256 * 97)]

(***************************************************************************)
(* Properties of the symbol map (SpecSymbols, SpecNewAddress).             *)
(***************************************************************************)

\* The (index, symbol) pairs of the stored symbols, in insertion order.
Entries(map) == [i \in 1..Len(map.symbols) |-> <<i - 1, map.symbols[i]>>]

\* Those at an address, and those of a name.
EntriesAt(map, address) == SelectSeq(Entries(map), LAMBDA e : e[2].addr = address)

EntriesNamed(map, name) == SelectSeq(Entries(map), LAMBDA e : e[2].name = name)

\* What a look-up that wants a single match is to give for the matches.
Single(matches, result) ==
    /\ Len(matches) > 1 <=> ~result.ok
    /\ Len(matches) = 1 => result = Ok(Some(matches[1]))
    /\ Len(matches) = 0 => result = Ok(None)

\* What a look-up of every match is to give.
Every(matches, result) ==
    /\ result.ok
    /\ result.v = IF matches = <<>> THEN None ELSE Some(matches)

Queries ==
    {"for_address", "by_address", "for_name", "by_name", "get_label", "get_pool_constant",
     "get_jump_table", "get_data", "lookup_symbol_name"}

\* C17: add never rejects a symbol, whatever is stored at its address or
\* under its name; by_address(a) faults exactly when more than one symbol is
\* stored at a, by_name(n) exactly when more than one is named n, and each
\* returns the single match, or nothing when there is none; for_address and
\* for_name never fault and return every match in insertion order; a query
\* leaves the stored symbols and both indices as they were.
C17_SoftUniqueness ==
    /\ symCall.op = "add"
          => /\ symCall.result.ok
             /\ symbols.symbols = Append(symCall.before.symbols, symCall.args)
    /\ symCall.op = "by_address"
          => Single(EntriesAt(symbols, symCall.args), symCall.result)
    /\ symCall.op = "by_name"
          => Single(EntriesNamed(symbols, symCall.args), symCall.result)
    /\ symCall.op = "for_address"
          => Every(EntriesAt(symbols, symCall.args), symCall.result)
    /\ symCall.op = "for_name"
          => Every(EntriesNamed(symbols, symCall.args), symCall.result)
    /\ symCall.op \in Queries => symbols = symCall.before

\* by_address faulted on an address that two stored symbols share.
C17_Witness ==
    /\ symCall.op = "by_address"
    /\ ~symCall.result.ok
    /\ Len(EntriesAt(symbols, symCall.args)) = 2

\* The last call was lookup_symbol_name; its arguments are (source,
\* destination).
LookedUp == symCall.op = "lookup_symbol_name"

\* C18: lookup_symbol_name(source, destination) returns the name of the
\* symbol at destination when exactly one symbol is stored there, and
\* returns nothing, without a fault or a panic, when none or more than one
\* is; the result is the same for every source.
C18_LenientLookup ==
    LookedUp =>
      /\ symCall.result.ok
      /\ symCall.result.v =
             IF Len(EntriesAt(symbols, symCall.args[2])) = 1
             THEN Some(EntriesAt(symbols, symCall.args[2])[1][2].name)
             ELSE None
      /\ \A source \in SymAddrs :
             SymbolMap_lookup_symbol_name(symbols, source, symCall.args[2]) = symCall.result

\* The kind a getter expects.
ExpectedKind ==
    [get_label |-> "Label", get_pool_constant |-> "PoolConstant",
     get_jump_table |-> "JumpTable", get_data |-> "Data"]

\* The last call was one of the getters by kind.
Got == symCall.op \in DOMAIN ExpectedKind

\* What a getter is to return for the one symbol at the address: the symbol,
\* after its payload for a jump table or data.
Returned(op, symbol) ==
    IF op \in {"get_jump_table", "get_data"} THEN <<symbol.kind.arg, symbol>> ELSE symbol

\* The result of a getter where at most one symbol is stored at the address.
GotOfOne(at) ==
    symCall.result =
        IF Len(at) = 1 /\ at[1][2].kind.tag = ExpectedKind[symCall.op]
        THEN Ok(Some(Returned(symCall.op, at[1][2])))
        ELSE Ok(None)

\* C19, as stated: for any map and address, get_label, get_pool_constant,
\* get_jump_table and get_data return the symbol at the address, with its
\* jump table or data, when it is of the expected kind, and None when no
\* symbol is stored there or the stored symbol is of another kind.
C19_GetByKind ==
    Got =>
      /\ symCall.result.ok
      /\ Len(EntriesAt(symbols, symCall.args)) <= 1 => GotOfOne(EntriesAt(symbols, symCall.args))
      /\ Len(EntriesAt(symbols, symCall.args)) > 1
            => \/ symCall.result.v = None
               \/ \E e \in {EntriesAt(symbols, symCall.args)[i] :
                                 i \in 1..Len(EntriesAt(symbols, symCall.args))} :
                      symCall.result.v = Some(Returned(symCall.op, e[2]))

\* C19, amended: where at most one symbol is stored at the address, the
\* getters return that symbol, with its jump table or data, when it is of
\* the expected kind, and None when there is none or it is of another kind;
\* where more than one symbol is stored at the address they panic, as
\* by_address does.
C19_GetByKindOfUnique ==
    Got =>
      /\ symbols = symCall.before
      /\ Len(EntriesAt(symbols, symCall.args)) <= 1 => GotOfOne(EntriesAt(symbols, symCall.args))
      /\ Len(EntriesAt(symbols, symCall.args)) > 1
            => ~symCall.result.ok /\ symCall.result.err = "Panic"

\* get_jump_table returned the jump table and its symbol from a map of two
\* symbols.
C19_Witness ==
    /\ symCall.op = "get_jump_table"
    /\ symCall.result.ok
    /\ symCall.result.v # None
    /\ symCall.result.v[1][1] = SymJumpTable(U32(0, 8), TRUE)
    /\ Len(symbols.symbols) = 2

\* The last call was one of the adds that look at the address index.
AddedIfNew == symCall.op \in {"add_if_new_address", "add_label", "add_pool_constant"}

LowerHex == {"0","1","2","3","4","5","6","7","8","9","a","b","c","d","e","f"}

\* name is `_` and the eight lower-case hexadecimal digits of addr.
IsLabelName(name, addr) ==
    /\ Len(name) = 9
    /\ name[1] = "_"
    /\ \A i \in 2..9 : name[i] \in LowerHex
    /\ ParseRadix(Drop(name, 1), 16) = [ok |-> TRUE, v |-> addr]

\* The symbol the call is to store when the address is new.
CandidateOk(candidate) ==
    CASE symCall.op = "add_if_new_address" -> candidate = symCall.args
      [] symCall.op = "add_label" ->
             /\ candidate.kind = SymbolKind("Label", <<>>)
             /\ candidate.addr = symCall.args
             /\ IsLabelName(candidate.name, symCall.args)
      [] symCall.op = "add_pool_constant" ->
             /\ candidate.kind = SymbolKind("PoolConstant", <<>>)
             /\ candidate.addr = symCall.args
             /\ IsLabelName(candidate.name, symCall.args)

CalledAddr == IF symCall.op = "add_if_new_address" THEN symCall.args.addr ELSE symCall.args

\* C20: add_if_new_address appends the symbol, and indexes it by address and
\* by name, only when no symbol is stored at its address; otherwise it
\* returns success and leaves the list and both indices as they were.
\* add_label and add_pool_constant do so with a symbol named `_` and the
\* eight lower-case hexadecimal digits of the address, and a sequence of
\* these calls never stores two symbols at one address.
C20_AddIfNewAddress ==
    /\ \A i, j \in 1..Len(symbols.symbols) :
           symbols.symbols[i].addr = symbols.symbols[j].addr => i = j
    /\ AddedIfNew =>
          /\ symCall.result.ok
          /\ IF EntriesAt(symCall.before, CalledAddr) # <<>>
             THEN symbols = symCall.before
             ELSE /\ Len(symbols.symbols) = Len(symCall.before.symbols) + 1
                  /\ IsPrefix(symCall.before.symbols, symbols.symbols)
                  /\ CandidateOk(symbols.symbols[Len(symbols.symbols)])
                  /\ SymbolMap_for_address(symbols, CalledAddr)
                         = Some(EntriesAt(symbols, CalledAddr))
                  /\ SymbolMap_for_name(symbols, symbols.symbols[Len(symbols.symbols)].name)
                         = Some(EntriesNamed(symbols,
                                    symbols.symbols[Len(symbols.symbols)].name))

\* add_label left the map alone at an address that holds a symbol of another
\* kind and name.
C20_Witness ==
    /\ symCall.op = "add_label"
    /\ symbols = symCall.before
    /\ \E i \in 1..Len(symbols.symbols) :
           /\ symbols.symbols[i].addr = symCall.args
           /\ symbols.symbols[i].kind.tag = "Data"
           /\ symbols.symbols[i].name = K_main


(***************************************************************************)
(* Properties of the written symbol file (SpecWrite).                      *)
(***************************************************************************)
Written == symCall.op = "to_file"

\* The positions of the stored symbols of kind Function, Data or Bss.
WrittenPositions(map) ==
    {i \in 1..Len(map.symbols) : map.symbols[i].kind.tag \in {"Function", "Data", "Bss"}}

\* Symbol i is written before symbol j: its address is lower, or the
\* addresses are equal and it was inserted first.
WrittenBefore(map, i, j) ==
    \/ U32Lt(map.symbols[i].addr, map.symbols[j].addr)
    \/ map.symbols[i].addr = map.symbols[j].addr /\ i < j

\* The line of symbol i among the written lines.
LineOf(map, i) ==
    1 + Cardinality({j \in WrittenPositions(map) : WrittenBefore(map, j, i)})

\* C21: to_file writes exactly one line per stored symbol of kind Function,
\* Data or Bss and none for a Label, PoolConstant or JumpTable symbol; the
\* lines are in ascending address, and symbols that share an address are in
\* the order of their insertion.
C21_WriteFilterAndOrder ==
    Written =>
        /\ symCall.result.ok
        /\ Len(symCall.result.v) = Cardinality(WrittenPositions(symbols))
        /\ \A i \in WrittenPositions(symbols) :
              symCall.result.v[LineOf(symbols, i)] = Symbol_fmt(symbols.symbols[i])

\* A map was written that holds a symbol of a kind that is left out, two
\* written symbols whose insertion order is not their address order, and
\* two written symbols at one address.
C21_Witness ==
    /\ Written
    /\ WrittenPositions(symbols) # 1..Len(symbols.symbols)
    /\ \E i, j \in WrittenPositions(symbols) :
          i < j /\ U32Lt(symbols.symbols[j].addr, symbols.symbols[i].addr)
    /\ \E i, j \in WrittenPositions(symbols) :
          i < j /\ symbols.symbols[j].addr = symbols.symbols[i].addr


(***************************************************************************)
(* Properties of the Bss range (SpecBss).                                  *)
(***************************************************************************)
AskedBssRange == secOut.op = "bss_range"

\* The addresses looked at: the section bounds, and ones between and beyond.
BssProbes == BssAddrs \cup {U32(0, 3), U32(0, 6), U32(0, 65535), U32(1, 4)}

InBssSection(self, address) ==
    \E i \in 1..Len(self.sections) :
        self.sections[i].kind = "Bss" /\ InRange(self.sections[i], address)

\* C22: bss_range is the union of the ranges of the Bss sections: it is
\* absent iff the collection has no Bss section; otherwise an address lies
\* in it iff the address lies in the half-open range of some Bss section,
\* and its length is bss_size, the sum of the sizes of the Bss sections.
C22_BssRangeIsUnion ==
    AskedBssRange =>
        LET range == secOut.result.v
        IN  /\ secOut.result.ok
            /\ range = None <=> (\A i \in 1..Len(sections.sections) :
                                     sections.sections[i].kind # "Bss")
            /\ range # None =>
                  /\ \A address \in BssProbes :
                        (U32Le(range[1].start, address) /\ U32Lt(address, range[1].end))
                            <=> InBssSection(sections, address)
                  /\ U32WrappingSub(range[1].end, range[1].start)
                        = Sections_bss_size(sections)


(***************************************************************************)
(* Colliding records in a relocation file (SpecLoad).                      *)
(***************************************************************************)
LoadedRelocations == ldIn.what = "relocations" /\ Loaded

\* The record read from line i of the file, if the line holds one.
RecordAt(lines, i) == Relocation_parse(StripComment(lines[i]), <<i>>)

HoldsRecord(lines, i) == RecordAt(lines, i).ok /\ RecordAt(lines, i).v # None

\* Lines i < j hold records with one `from` that differ in to, addend, kind
\* or module, and every line up to j is read without a fault.
Collide(lines, i, j) ==
    /\ i < j
    /\ \A k \in 1..j : RecordAt(lines, k).ok
    /\ HoldsRecord(lines, i) /\ HoldsRecord(lines, j)
    /\ LET a == RecordAt(lines, i).v[1]
           b == RecordAt(lines, j).v[1]
       IN  /\ a.from = b.from
           /\ a.to # b.to \/ a.addend # b.addend \/ a.kind # b.kind \/ a.module # b.module

\* C23: while from_file builds the table, a record read at address `from` is
\* never replaced by a later line with the same `from` and differing to,
\* addend, kind or module: such a file does not load to a table that holds
\* the later record at `from`.
C23_FileCollision ==
    LoadedRelocations =>
        \A i, j \in 1..Len(ldIn.lines) :
            Collide(ldIn.lines, i, j) =>
                LET b == RecordAt(ldIn.lines, j).v[1]
                IN  ~(/\ ldOut.ok
                      /\ b.from \in DOMAIN ldOut.v
                      /\ ldOut.v[b.from] = b)


(***************************************************************************)
(* Properties of the registry (SpecIndex).                                 *)
(***************************************************************************)
AddOps ==
    {"add", "add_if_new_address", "add_label", "add_pool_constant", "add_function",
     "add_jump_table", "add_data"}

AddedSymbol == symCall.op \in AddOps

\* The places <<key, k>> of an index: entry `key`, k-th position of its list.
Places(index) == UNION {{<<key, k>> : k \in 1..Len(index[key])} : key \in DOMAIN index}

\* Position i is held at exactly one place of the index, under the key given.
HeldOnceUnder(index, i, key) ==
    /\ Cardinality({p \in Places(index) : index[p[1]][p[2]] = i}) = 1
    /\ \A p \in Places(index) : index[p[1]][p[2]] = i => p[1] = key

\* The index holds positions of the list only, each entry in increasing order.
WellFormed(index, n) ==
    /\ \A p \in Places(index) : index[p[1]][p[2]] \in 0..(n - 1)
    /\ \A key \in DOMAIN index :
          \A k \in 1..(Len(index[key]) - 1) : index[key][k] < index[key][k + 1]

StartsWith(list, prefix) ==
    Len(prefix) <= Len(list) /\ \A i \in 1..Len(prefix) : list[i] = prefix[i]

\* C24: every position i of the symbol list is held exactly once in the
\* address index, under symbols[i].addr, and exactly once in the name index,
\* under symbols[i].name; the indices hold no other positions, each entry
\* lists its positions in increasing order, and an add leaves the symbols
\* stored before it in place and unchanged.
C24_IndexConsistency ==
    /\ \A i \in 1..Len(symbols.symbols) :
          /\ HeldOnceUnder(symbols.symbols_by_address, i - 1, symbols.symbols[i].addr)
          /\ HeldOnceUnder(symbols.symbols_by_name, i - 1, symbols.symbols[i].name)
    /\ WellFormed(symbols.symbols_by_address, Len(symbols.symbols))
    /\ WellFormed(symbols.symbols_by_name, Len(symbols.symbols))
    /\ AddedSymbol => StartsWith(symbols.symbols, symCall.before.symbols)

\* A jump table was added at an address that held a symbol: the entry of the
\* address lists two positions, and the two names differ.
C24_Witness ==
    /\ symCall.op = "add_jump_table"
    /\ symCall.before.symbols # <<>>
    /\ Len(symbols.symbols_by_address[symCall.args.address]) = 2
    /\ symbols.symbols[1].name # symbols.symbols[2].name


AskedJumpTable == symCall.op = "get_jump_table"

\* The symbol stored last is a jump table at the address asked: the table
\* was registered by add_jump_table, and every other symbol of the map was
\* stored by an earlier call.
RegisteredLast ==
    /\ symbols.symbols # <<>>
    /\ symbols.symbols[Len(symbols.symbols)].kind.tag = "JumpTable"
    /\ symbols.symbols[Len(symbols.symbols)].addr = symCall.args

\* get_jump_table gave the size and the is-code flag of the table stored last.
GaveRegistered ==
    LET symbol == symbols.symbols[Len(symbols.symbols)]
    IN  /\ symCall.result.ok
        /\ symCall.result.v = Some(<<symbol.kind.arg, symbol>>)

\* C25, as stated: after add_jump_table(table), whatever was added before
\* it, at the same address or another, get_jump_table(table.address) gives
\* the size and the is-code flag of the table and does not fault.
C25_JumpTableRetrievable ==
    AskedJumpTable /\ RegisteredLast => GaveRegistered

\* C25, amended: after add_jump_table(table), get_jump_table(table.address)
\* gives the size and the is-code flag of the table when no earlier call
\* stored a symbol at that address, and panics when one did.
C25_JumpTableRetrievableAtNewAddress ==
    AskedJumpTable /\ RegisteredLast =>
        IF Len(symbols.symbols_by_address[symCall.args]) = 1
        THEN GaveRegistered
        ELSE ~symCall.result.ok /\ symCall.result.err = "Panic"

\* A jump table registered after a symbol at another address was asked back.
C25_Witness ==
    /\ AskedJumpTable /\ RegisteredLast
    /\ Len(symbols.symbols) = 2
    /\ symbols.symbols[1].addr # symCall.args
    /\ symCall.result.ok
    /\ symCall.result.v[1][1] = SymJumpTable(U32(0, 8), TRUE)

=============================================================================
